---- MODULE Spec2Model ----
(***************************************************************************)
(* Firmware update manager: the rule engine (rules_engine.py), the         *)
(* firmware cache and the update orchestrator (manage_firmware.py).        *)
(*                                                                         *)
(* Python values are tagged records, so that values of different Python    *)
(* types can be compared: None, bool, int, str, list, dict, callable.      *)
(* A field name is the sequence of its tokens, "." being the separator     *)
(* token: "firmware_notecard.ver_major" is                                 *)
(* <<"firmware_notecard", ".", "ver_major">>.                              *)
(***************************************************************************)
EXTENDS Integers, Sequences, FiniteSets, TLC

----------------------------------------------------------------------------
(* Python values *)

PyNone == [t |-> "none"]

PyBool(b) == [t |-> "bool", b |-> b]

PyInt(n) == [t |-> "int", n |-> n]

PyStr(s) == [t |-> "str", s |-> s]

PyList(items) == [t |-> "list", items |-> items]

PyDict(d) == [t |-> "dict", d |-> d]

PyFn(name) == [t |-> "fn", name |-> name]

\* an ordered mapping: a sequence of <<key, value>> pairs, in insertion order
PyItems(pairs) == [t |-> "items", items |-> pairs]

\* the outcome of a call that raised
Raised(exc) == [t |-> "raise", exc |-> exc]

IsRaised(v) == v.t = "raise"

Truthy(v) ==
    CASE v.t = "none" -> FALSE
      [] v.t = "bool" -> v.b
      [] v.t = "int" -> v.n # 0
      [] v.t = "str" -> v.s # ""
      [] v.t = "text" -> Len(v.p) > 0
      [] v.t = "list" -> Len(v.items) > 0
      [] v.t = "dict" -> DOMAIN v.d # {}
      [] v.t = "items" -> Len(v.items) > 0
      [] OTHER -> TRUE

\* dict.get(key, default) on a mapping held as a function
Get(d, k, default) == IF k \in DOMAIN d THEN d[k] ELSE default

----------------------------------------------------------------------------
(* rules.py: the callables of the shipped rule set *)

UpdateFleet == "fleet:50b4f0ee"

OtherFleet == "fleet:563ed441"

\* mutant: the bound is inclusive
majorBelow8_inclusive(major) ==
    CASE major.t = "none" -> PyBool(FALSE)
      [] major.t = "int" -> PyBool(major.n <= 8)
      [] major.t = "bool" -> PyBool(TRUE)
      [] OTHER -> Raised("TypeError")

\* lambda major: major is not None and major < 8
majorBelow8(major) ==
    CASE major.t = "none" -> PyBool(FALSE)
      [] major.t = "int" -> PyBool(major.n < 8)
      [] major.t = "bool" -> PyBool(TRUE)
      [] OTHER -> Raised("TypeError")

\* fleetsContain(f): lambda fleet_list: fleet_list and f in fleet_list
fleetsContain(f, fleet_list) ==
    IF ~Truthy(fleet_list) THEN fleet_list
    ELSE CASE fleet_list.t = "list" ->
                  PyBool(\E i \in 1..Len(fleet_list.items) : fleet_list.items[i] = PyStr(f))
           [] fleet_list.t = "dict" -> PyBool(<<f>> \in DOMAIN fleet_list.d)
           \* substring test; no string of the model properly contains f
           [] fleet_list.t = "str" -> PyBool(fleet_list.s = f)
           [] OTHER -> Raised("TypeError")

\* calling a callable condition with one argument
Apply(fn, value) ==
    CASE fn.name = "majorBelow8" -> majorBelow8(value)
      [] fn.name = "fleetsContainUpdateFleet" -> fleetsContain(UpdateFleet, value)
      [] OTHER -> Raised("TypeError")

----------------------------------------------------------------------------
(* rules_engine.py *)

Dot == "."

\* str.split('.') on a token sequence: the parts between the separator tokens
RECURSIVE SplitFrom(_, _, _)
SplitFrom(name, i, part) ==
    IF i > Len(name) THEN <<part>>
    ELSE IF name[i] = Dot THEN <<part>> \o SplitFrom(name, i + 1, <<>>)
    ELSE SplitFrom(name, i + 1, Append(part, name[i]))

Split(name) == SplitFrom(name, 1, <<>>)

HasDot(name) == \E i \in 1..Len(name) : name[i] = Dot

\* mutant: the value is asked for the next part whatever it is
RECURSIVE Traverse_noTypeCheck(_, _, _)
Traverse_noTypeCheck(current_value, parts, i) ==
    IF i > Len(parts) THEN current_value
    ELSE IF current_value.t # "dict" THEN Raised("AttributeError")
    ELSE LET next_value == Get(current_value.d, parts[i], PyNone)
         IN  IF next_value = PyNone THEN PyNone
             ELSE Traverse_noTypeCheck(next_value, parts, i + 1)

\* the loop of resolve_field_value over parts[1:]
RECURSIVE Traverse(_, _, _)
Traverse(current_value, parts, i) ==
    IF i > Len(parts) THEN current_value
    ELSE IF current_value.t # "dict" THEN PyNone
    ELSE LET next_value == Get(current_value.d, parts[i], PyNone)
         IN  IF next_value = PyNone THEN PyNone
             ELSE Traverse(next_value, parts, i + 1)

resolve_field_value(device_data, field_name) ==
    IF ~HasDot(field_name) THEN Get(device_data, field_name, PyNone)
    ELSE LET parts == Split(field_name)
             first == Get(device_data, parts[1], PyNone)
         IN  IF first = PyNone THEN PyNone
             ELSE Traverse(first, parts, 2)

\* rules_engine.match_condition: the value the function returns, or Raised
engine_match_condition(value, condition) ==
    IF condition.t = "fn" THEN Apply(condition, value)
    ELSE PyBool(value = condition)

\* mutant: only the first entry of the conditions is looked at
CheckItems_firstEntry(device_data, items, i) ==
    IF i > Len(items) THEN "match"
    ELSE LET device_field_value == resolve_field_value(device_data, items[i][1])
             m == engine_match_condition(device_field_value, items[i][2])
         IN  IF IsRaised(m) THEN "raise"
             ELSE IF ~Truthy(m) THEN "nomatch"
             ELSE "match"

\* checkConditions: "match", "nomatch" or "raise"
RECURSIVE CheckItems(_, _, _)
CheckItems(device_data, items, i) ==
    IF i > Len(items) THEN "match"
    ELSE LET device_field_value == resolve_field_value(device_data, items[i][1])
             m == engine_match_condition(device_field_value, items[i][2])
         IN  IF IsRaised(m) THEN "raise"
             ELSE IF ~Truthy(m) THEN "nomatch"
             ELSE CheckItems(device_data, items, i + 1)

checkConditions(device_data, conditions) ==
    IF conditions = PyNone THEN "match"
    ELSE IF conditions.t # "items" THEN "raise"
    ELSE CheckItems(device_data, conditions.items, 1)

\* rules that are not a list are wrapped in a one-element list
Normalize(rules) == IF rules.t = "list" THEN rules.items ELSE <<rules.d>>

\* mutant: the default id counts from zero
DefaultId_zeroBased(i) == PyStr("rule-" \o ToString(i - 1))

\* f"rule-{i + 1}" for the 0-based index i of enumerate, here i is 1-based
DefaultId(i) == PyStr("rule-" \o ToString(i))

NoMatch == [kind |-> "return", id |-> PyNone, target |-> PyNone]

Selected(id, target) == [kind |-> "return", id |-> id, target |-> target]

Failed(exc) == [kind |-> "raise", exc |-> exc]

\* mutant: a later matching rule replaces an earlier one
RECURSIVE EngineLoop_lastMatch(_, _, _)
EngineLoop_lastMatch(device_data, rules, i) ==
    IF i > Len(rules) THEN NoMatch
    ELSE LET rule == rules[i]
             conditions == Get(rule, "conditions", PyNone)
             rule_id == Get(rule, "id", DefaultId(i))
             target_versions == Get(rule, "target_versions", PyNone)
             all_conditions_match == checkConditions(device_data, conditions)
             later == EngineLoop_lastMatch(device_data, rules, i + 1)
         IN  CASE all_conditions_match = "raise" -> Failed("Exception")
               [] all_conditions_match = "match" ->
                      IF later = NoMatch THEN Selected(rule_id, target_versions) ELSE later
               [] OTHER -> later

\* the loop of rules_engine.getFirmwareUpdateTargets from (1-based) rule i
RECURSIVE EngineLoop(_, _, _)
EngineLoop(device_data, rules, i) ==
    IF i > Len(rules) THEN NoMatch
    ELSE LET rule == rules[i]
             conditions == Get(rule, "conditions", PyNone)
             rule_id == Get(rule, "id", DefaultId(i))
             target_versions == Get(rule, "target_versions", PyNone)
             all_conditions_match == checkConditions(device_data, conditions)
         IN  CASE all_conditions_match = "raise" -> Failed("Exception")
               [] all_conditions_match = "match" -> Selected(rule_id, target_versions)
               [] OTHER -> EngineLoop(device_data, rules, i + 1)

engine_getFirmwareUpdateTargets(device_data, rules) ==
    EngineLoop(device_data, Normalize(rules), 1)

\* mutant: a callable is called once to test it and once more for its result
Check_invokesTwice(rule, field, condition, value, m) ==
    [rule |-> rule,
     field |-> field,
     invoked |-> IF condition.t = "fn"
                 THEN <<[fn |-> condition.name, arguments |-> <<value>>, ret |-> m],
                        [fn |-> condition.name, arguments |-> <<value>>, ret |-> m]>>
                 ELSE <<>>,
     matched |-> IF IsRaised(m) THEN "raise" ELSE IF Truthy(m) THEN "match" ELSE "nomatch"]

\* one call match_condition(value, condition) made for a field of a rule: the
\* calls of the condition it makes, line 122, and how its result m is taken
Check(rule, field, condition, value, m) ==
    [rule |-> rule,
     field |-> field,
     invoked |-> IF condition.t = "fn"
                 THEN <<[fn |-> condition.name, arguments |-> <<value>>, ret |-> m]>>
                 ELSE <<>>,
     matched |-> IF IsRaised(m) THEN "raise" ELSE IF Truthy(m) THEN "match" ELSE "nomatch"]

\* the calls of match_condition the loop of checkConditions makes from entry i
RECURSIVE CheckItemsLog(_, _, _, _)
CheckItemsLog(device_data, items, i, rule) ==
    IF i > Len(items) THEN <<>>
    ELSE LET device_field_value == resolve_field_value(device_data, items[i][1])
             m == engine_match_condition(device_field_value, items[i][2])
             here == <<Check(rule, items[i][1], items[i][2], device_field_value, m)>>
         IN  IF IsRaised(m) \/ ~Truthy(m) THEN here
             ELSE here \o CheckItemsLog(device_data, items, i + 1, rule)

\* the calls of match_condition the loop over the rules makes from rule i
RECURSIVE EngineLog(_, _, _)
EngineLog(device_data, rules, i) ==
    IF i > Len(rules) THEN <<>>
    ELSE LET conditions == Get(rules[i], "conditions", PyNone)
             all_conditions_match == checkConditions(device_data, conditions)
             here == IF conditions = PyNone \/ conditions.t # "items" THEN <<>>
                     ELSE CheckItemsLog(device_data, conditions.items, 1, i)
         IN  IF all_conditions_match \in {"raise", "match"} THEN here
             ELSE here \o EngineLog(device_data, rules, i + 1)

engine_checks(device_data, rules) == EngineLog(device_data, Normalize(rules), 1)

----------------------------------------------------------------------------
(* manage_firmware.py: values and collaborators *)

Notecard == "notecard"

Host == "host"

FirmwareTypes == {Notecard, Host}

\* f"{value}" of a string or None
Format(v) == IF v.t = "str" THEN v.s ELSE "None"

\* lookup of a key in an ordered mapping, dict.get(key) with default None
RECURSIVE ItemsGetFrom(_, _, _)
ItemsGetFrom(items, key, i) ==
    IF i > Len(items) THEN PyNone
    ELSE IF items[i][1] = key THEN items[i][2]
    ELSE ItemsGetFrom(items, key, i + 1)

ItemsGet(c, key) == ItemsGetFrom(c.items, key, 1)

\* match_condition of manage_firmware.getFirmwareUpdateTargets
mf_match_condition(value, condition) ==
    IF condition = PyNone THEN PyBool(TRUE)
    ELSE IF condition.t = "fn" THEN Apply(condition, value)
    ELSE PyBool(value = condition)

\* mutant: one condition that holds is enough
mf_checkRule_any(c, fleetUID, notecardVersion, hostVersion) ==
    LET notecardUpdateStatus == mf_match_condition(notecardVersion, ItemsGet(c, <<"notecard">>))
        hostUpdateStatus == mf_match_condition(hostVersion, ItemsGet(c, <<"host">>))
        fleetMatches == mf_match_condition(fleetUID, ItemsGet(c, <<"fleet">>))
    IN  IF IsRaised(notecardUpdateStatus) \/ IsRaised(hostUpdateStatus) \/ IsRaised(fleetMatches)
        THEN "raise"
        ELSE IF Truthy(notecardUpdateStatus) \/ Truthy(hostUpdateStatus) \/ Truthy(fleetMatches)
        THEN "match"
        ELSE "nomatch"

\* the three checks of one rule against (fleet, notecard version, host version)
mf_checkRule(c, fleetUID, notecardVersion, hostVersion) ==
    LET notecardUpdateStatus == mf_match_condition(notecardVersion, ItemsGet(c, <<"notecard">>))
        hostUpdateStatus == mf_match_condition(hostVersion, ItemsGet(c, <<"host">>))
        fleetMatches == mf_match_condition(fleetUID, ItemsGet(c, <<"fleet">>))
    IN  IF IsRaised(notecardUpdateStatus) \/ IsRaised(hostUpdateStatus) \/ IsRaised(fleetMatches)
        THEN "raise"
        ELSE IF Truthy(notecardUpdateStatus) /\ Truthy(hostUpdateStatus) /\ Truthy(fleetMatches)
        THEN "match"
        ELSE "nomatch"

RECURSIVE TargetsLoop(_, _, _, _, _)
TargetsLoop(fleetUID, notecardVersion, hostVersion, rules, i) ==
    IF i > Len(rules) THEN NoMatch
    ELSE LET r == rules[i]
             c == Get(r, "conditions", PyNone)
             id == Get(r, "id", DefaultId(i))
             targetVersions == Get(r, "targetVersions", PyNone)
             m == IF c = PyNone THEN "match"
                  ELSE IF c.t # "items" THEN "raise"
                  ELSE mf_checkRule(c, fleetUID, notecardVersion, hostVersion)
         IN  CASE m = "raise" -> Failed("Exception")
               [] m = "match" -> Selected(id, targetVersions)
               [] OTHER -> TargetsLoop(fleetUID, notecardVersion, hostVersion, rules, i + 1)

mf_getFirmwareUpdateTargets(fleetUID, notecardVersion, hostVersion, rules) ==
    TargetsLoop(fleetUID, notecardVersion, hostVersion, Normalize(rules), 1)

\* the calls of match_condition lines 119-121 make for rule number rule, in
\* their order; a call that raises is the last
mf_checkRuleLog(c, fleetUID, notecardVersion, hostVersion, rule) ==
    LET notecardUpdateStatus == mf_match_condition(notecardVersion, ItemsGet(c, <<"notecard">>))
        hostUpdateStatus == mf_match_condition(hostVersion, ItemsGet(c, <<"host">>))
        fleetMatches == mf_match_condition(fleetUID, ItemsGet(c, <<"fleet">>))
        n == Check(rule, <<"notecard">>, ItemsGet(c, <<"notecard">>), notecardVersion,
                   notecardUpdateStatus)
        h == Check(rule, <<"host">>, ItemsGet(c, <<"host">>), hostVersion, hostUpdateStatus)
        f == Check(rule, <<"fleet">>, ItemsGet(c, <<"fleet">>), fleetUID, fleetMatches)
    IN  IF IsRaised(notecardUpdateStatus) THEN <<n>>
        ELSE IF IsRaised(hostUpdateStatus) THEN <<n, h>>
        ELSE <<n, h, f>>

\* the calls of match_condition the loop over the rules makes from rule i
RECURSIVE TargetsLog(_, _, _, _, _)
TargetsLog(fleetUID, notecardVersion, hostVersion, rules, i) ==
    IF i > Len(rules) THEN <<>>
    ELSE LET c == Get(rules[i], "conditions", PyNone)
             m == IF c = PyNone THEN "match"
                  ELSE IF c.t # "items" THEN "raise"
                  ELSE mf_checkRule(c, fleetUID, notecardVersion, hostVersion)
             here == IF c = PyNone \/ c.t # "items" THEN <<>>
                     ELSE mf_checkRuleLog(c, fleetUID, notecardVersion, hostVersion, i)
         IN  IF m \in {"raise", "match"} THEN here
             ELSE here \o TargetsLog(fleetUID, notecardVersion, hostVersion, rules, i + 1)

mf_checks(fleetUID, notecardVersion, hostVersion, rules) ==
    TargetsLog(fleetUID, notecardVersion, hostVersion, Normalize(rules), 1)

\* fetchDeviceFirmwareVersion: d.get("current", {}).get("version")
fetchDeviceFirmwareVersion(d) ==
    LET current == Get(d, "current", PyDict(<<>>))
    IN  Get(current.d, "version", PyNone)

----------------------------------------------------------------------------
(* FirmwareCache *)

expiration_duration_seconds == 1800

\* mutant: an entry without a filename is kept
RECURSIVE BuildCache_keepIncomplete(_, _, _)
BuildCache_keepIncomplete(response, i, c) ==
    IF i > Len(response) THEN c
    ELSE LET t == Get(response[i], "type", PyNone)
             v == Get(response[i], "version", PyNone)
             f == Get(response[i], "filename", PyNone)
         IN  IF t = PyNone \/ v = PyNone
             THEN BuildCache_keepIncomplete(response, i + 1, c)
             ELSE IF t.t # "str" \/ t.s \notin DOMAIN c
             THEN Raised("KeyError")
             ELSE BuildCache_keepIncomplete(response, i + 1,
                     [c EXCEPT ![t.s] = [k \in DOMAIN c[t.s] \cup {v} |->
                                            IF k = v THEN f ELSE c[t.s][k]]])

\* the loop of FirmwareCache.update over the catalog response: the new map,
\* or Raised when an entry names a type that is no key of the map
RECURSIVE BuildCache(_, _, _)
BuildCache(response, i, c) ==
    IF i > Len(response) THEN c
    ELSE LET t == Get(response[i], "type", PyNone)
             v == Get(response[i], "version", PyNone)
             f == Get(response[i], "filename", PyNone)
         IN  IF t = PyNone \/ v = PyNone \/ f = PyNone
             THEN BuildCache(response, i + 1, c)
             ELSE IF t.t # "str" \/ t.s \notin DOMAIN c
             THEN Raised("KeyError")
             ELSE BuildCache(response, i + 1,
                     [c EXCEPT ![t.s] = [k \in DOMAIN c[t.s] \cup {v} |->
                                            IF k = v THEN f ELSE c[t.s][k]]])

EmptyCache == [t \in FirmwareTypes |-> <<>>]

\* _cacheIsExpired(): time.time() >= self.cache_expiry
cacheIsExpired(time, expiry) == time >= expiry

\* the test of retrieve, "if self._cacheIsExpired:", tests the bound method
\* itself, which is an object and hence true, whatever the clock says
retrieveMustUpdate(time, expiry) == Truthy(PyFn("_cacheIsExpired"))

\* mutant: every lookup reads the host's map
lookup_hostMap(c, firmwareType, version) ==
    IF Host \notin DOMAIN c THEN Raised("not available")
    ELSE IF version \notin DOMAIN c[Host] THEN Raised("version not available")
    ELSE LET f == c[Host][version]
         IN  IF f.t # "str" \/ f.s = "" THEN Raised("invalid file name")
             ELSE f

\* mutant: the stored filename is returned whatever it is
lookup_noValidation(c, firmwareType, version) ==
    IF firmwareType \notin DOMAIN c THEN Raised("not available")
    ELSE IF version \notin DOMAIN c[firmwareType] THEN Raised("version not available")
    ELSE c[firmwareType][version]

\* the lookups of retrieve after the refresh: the filename or Raised
lookup(c, firmwareType, version) ==
    IF firmwareType \notin DOMAIN c THEN Raised("not available")
    ELSE IF version \notin DOMAIN c[firmwareType] THEN Raised("version not available")
    ELSE LET f == c[firmwareType][version]
         IN  IF f.t # "str" \/ f.s = "" THEN Raised("invalid file name")
             ELSE f

----------------------------------------------------------------------------
(* State *)

VARIABLES
    pc,                         \* position of the running manageFirmware call
    args,                       \* the arguments of the call
    notecardFirmwareVersion,    \* local of manageFirmware
    hostFirmwareVersion,        \* local of manageFirmware
    ruleID,                     \* local of manageFirmware
    targetVersions,             \* local of manageFirmware
    file,                       \* local of requestUpdateToTargetVersion
    ncMessage,                  \* local of manageFirmware
    result,                     \* how the call ended: returned string or raised
    calls,                      \* collaborator calls and cache retrievals of the call
    cache,                      \* firmwareCache.cache
    cache_expiry,               \* firmwareCache.cache_expiry
    now,                        \* time.time()
    invocations,                \* number of calls of manageFirmware so far
    e_device,                   \* rules_engine: device_data argument
    e_rules,                    \* rules_engine: rules argument
    e_out,                      \* rules_engine: what the call returned
    e_local,                    \* what manage_firmware.getFirmwareUpdateTargets returned
    e_path,                     \* rules_engine: field_name argument of resolve_field_value
    e_value,                    \* what resolve_field_value returned
    e_again,                    \* rules_engine: what a second call on the same arguments returned
    e_checks,                   \* the condition checks of each evaluation, with the calls of the callables
    event,                      \* main.py: the event lambda_handler is called with
    expected_token,             \* main.py: what retrieveAuthToken() returns
    h_pc,                       \* position of the running lambda_handler call
    session,                    \* the call of manageFirmware made by processRoutedSession
    h_response,                 \* what lambda_handler returned
    threads                     \* the invocations that share firmwareCache, each with its position and locals

vars == <<pc, args, notecardFirmwareVersion, hostFirmwareVersion, ruleID,
          targetVersions, file, ncMessage, result, calls, cache, cache_expiry,
          now, invocations, e_device, e_rules, e_out, e_local, e_path, e_value,
          e_again, e_checks, event, expected_token, h_pc, session, h_response,
          threads>>

mfVars == <<pc, args, notecardFirmwareVersion, hostFirmwareVersion, ruleID,
            targetVersions, file, ncMessage, result, calls, cache,
            cache_expiry, now, invocations>>

engineVars == <<e_device, e_rules, e_out, e_local, e_path, e_value, e_again, e_checks>>

handlerVars == <<event, expected_token, h_pc, session, h_response>>

sharedVars == <<threads>>

----------------------------------------------------------------------------
(* Bounds and input sets *)

MaxRules == 2

MaxTime == 1

MaxInvocations == 1

V1 == PyStr("8.1.3")

V2 == PyStr("8.1.4")

V3 == PyStr("9.0.0")

Fleet1 == PyStr(UpdateFleet)

DeviceUIDs == {"dev:868050040074169"}

\* a dict literal with string keys
D1(k1, v1) == [k \in {k1} |-> v1]

D2(k1, v1, k2, v2) == [k \in {k1, k2} |-> IF k = k1 THEN v1 ELSE v2]

D3(k1, v1, k2, v2, k3, v3) ==
    [k \in {k1, k2, k3} |-> IF k = k1 THEN v1 ELSE IF k = k2 THEN v2 ELSE v3]

\* rules in the format manage_firmware.getFirmwareUpdateTargets reads
MfRules == {
    D2("conditions", PyItems(<< <<<<"notecard">>, V1>>,
                                <<<<"fleet">>, PyFn("fleetsContainUpdateFleet")>> >>),
       "targetVersions", PyDict(D2(Notecard, V2, Host, V2))),
    D3("id", PyStr("my-id"), "conditions", PyNone, "targetVersions", PyNone),
    D2("id", PyStr("fallback"), "targetVersions", PyDict(D1(Host, V2))),
    D2("conditions", PyItems(<< <<<<"host">>, V1>>, <<<<"notecard">>, PyNone>>,
                                <<<<"fleet">>, Fleet1>> >>),
       "targetVersions", PyDict(D2(Notecard, PyNone, Host, V1))),
    D3("id", PyStr("single"), "conditions", PyItems(<<>>), "targetVersions", V2)
}

\* the sequences of at most n different elements of S
RECURSIVE SeqsUpTo(_, _)
SeqsUpTo(S, n) ==
    IF n = 0 THEN {<<>>}
    ELSE LET shorter == SeqsUpTo(S, n - 1)
         IN  shorter \cup UNION {{Append(q, x) : x \in {y \in S : \A k \in DOMAIN q : q[k] # y}} :
                                    q \in shorter}

\* a rule list, or a bare rule
RuleSetsOf(S) == {PyList(q) : q \in SeqsUpTo(S, MaxRules)} \cup {PyDict(r) : r \in S}

Params == {"project", "deviceUID", "fleetUID", "notecardFirmwareVersion",
           "hostFirmwareVersion", "rules"}

\* a call names its arguments; a caller that wants a dry run adds is_dry_run=True
Invocations ==
    [deviceUID : DeviceUIDs,
     fleetUID : {PyNone, Fleet1},
     notecardFirmwareVersion : {PyNone, V1},
     hostFirmwareVersion : {PyNone, V1},
     rules : RuleSetsOf(MfRules),
     keywords : {Params, Params \cup {"is_dry_run"}}]

NoArgs == [deviceUID |-> "", fleetUID |-> PyNone, notecardFirmwareVersion |-> PyNone,
           hostFirmwareVersion |-> PyNone, rules |-> PyList(<<>>), keywords |-> {}]

\* answers of getDeviceFirmwareUpdateHistory
HistoryAnswers == {<<>>, D1("current", PyDict(<<>>)),
                   D1("current", PyDict(D1("version", V1))),
                   D1("current", PyDict(D1("version", V2)))}

\* answers of getDeviceFirmwareUpdateStatus
StatusAnswers == {<<>>, D1("dfu_in_progress", PyBool(FALSE)),
                  D1("dfu_in_progress", PyBool(TRUE))}

Entry(t, v, f) == D3("type", t, "version", v, "filename", f)

\* answers of fetchAvailableFirmware
Catalogs == {
    <<Entry(PyStr(Notecard), V2, PyStr("notecard-8.1.4.bin")),
      Entry(PyStr(Host), V2, PyStr("host-8.1.4.bin")),
      D2("type", PyStr(Notecard), "version", V3)>>,
    <<Entry(PyStr(Host), V2, PyStr("")),
      Entry(PyStr(Notecard), V2, PyStr("old.bin")),
      Entry(PyStr(Notecard), V2, PyStr("notecard-8.1.4.bin"))>>,
    <<>>,
    <<Entry(PyStr("other"), V2, PyStr("other.bin"))>>
}

NotRun == [kind |-> "none"]

Returned(m) == [kind |-> "return", value |-> m]

Call(op, device, fw, arg, ret) ==
    [op |-> op, device |-> device, fw |-> fw, arg |-> arg, ret |-> ret]

----------------------------------------------------------------------------
(* manage_firmware.py: messages *)

NoRuleMessage == <<"No rule conditions met. No updates required">>

RuleMessage(id) == <<"According to rule id", Format(id), ",">>

SatisfiedMessage(id) ==
    RuleMessage(id) \o <<"firmware requirements met, no updates required">>

BlockedMessage(id, channel) ==
    RuleMessage(id) \o <<"firmware requirements NOT met.  Update not requested because",
                         channel, "update is in progress">>

NoRequestMessage(firmwareType) == <<"No firmware update request for", firmwareType>>

SkipMessage(firmwareType, fw) ==
    <<"Skipping update request for", firmwareType,
      ". Already at target version of", Format(fw), ".">>

RequestedMessage(firmwareType, currentVersion, fw) ==
    <<"Requested", firmwareType, "firmware update from", Format(currentVersion),
      "to", Format(fw), ".">>

\* " ".join([ruleMessage, ncMessage, hostMessage])
Join(ruleMessage, nc, host) == ruleMessage \o nc \o host

----------------------------------------------------------------------------
(* manage_firmware.py: the steps of manageFirmware *)

\* no event has been handed to lambda_handler
\* no evaluation has checked a condition
NoChecks == [engine |-> <<>>, local |-> <<>>, again |-> <<>>]

NoEvent == [headers |-> [t |-> "absent"], body |-> [t |-> "absent"],
            queryStringParameters |-> [t |-> "absent"]]

HandlerIdle ==
    /\ event = NoEvent
    /\ expected_token = PyNone
    /\ h_pc = "idle"
    /\ session = [kind |-> "none"]
    /\ h_response = [kind |-> "none"]

\* the invocations that can share the firmwareCache object of one process
Threads == {1, 2}

\* an invocation that has not called the cache
IdleThread ==
    [pc |-> "idle", op |-> "none", firmwareType |-> "", version |-> [t |-> "none"],
     stale |-> FALSE, expiry_seen |-> 0, ts |-> 0, c |-> <<>>, fetched |-> FALSE,
     seen |-> <<>>, out |-> [kind |-> "none"]]

NoThreads == threads = [t \in Threads |-> IdleThread]

Init ==
    /\ pc = "idle"
    /\ args = NoArgs
    /\ notecardFirmwareVersion = PyNone
    /\ hostFirmwareVersion = PyNone
    /\ ruleID = PyNone
    /\ targetVersions = PyNone
    /\ file = PyNone
    /\ ncMessage = <<>>
    /\ result = NotRun
    /\ calls = <<>>
    /\ cache = <<>>
    /\ cache_expiry = 0
    /\ now = 0
    /\ invocations = 0
    /\ e_device = <<>>
    /\ e_rules = PyList(<<>>)
    /\ e_out = NotRun
    /\ e_local = NotRun
    /\ e_path = <<>>
    /\ e_value = NotRun
    /\ e_again = NotRun
    /\ e_checks = NoChecks
    /\ HandlerIdle
    /\ NoThreads

UnexpectedKeyword == "TypeError: got an unexpected keyword argument"

\* the call ends by raising
Raise(exc) ==
    /\ pc' = "done"
    /\ result' = Failed(exc)

\* the call ends by returning m
Return(m) ==
    /\ pc' = "done"
    /\ result' = Returned(m)

\* the call of manageFirmware binds its arguments; a keyword that is no
\* parameter of the function is a TypeError
Invoke ==
    /\ pc = "idle"
    /\ invocations < MaxInvocations
    /\ invocations' = invocations + 1
    /\ \E a \in Invocations :
         /\ args' = a
         /\ notecardFirmwareVersion' = a.notecardFirmwareVersion
         /\ hostFirmwareVersion' = a.hostFirmwareVersion
         /\ IF a.keywords \subseteq Params
            THEN pc' = "gatherNotecard" /\ result' = NotRun
            ELSE Raise(UnexpectedKeyword)
    /\ ruleID' = PyNone
    /\ targetVersions' = PyNone
    /\ file' = PyNone
    /\ ncMessage' = <<>>
    /\ calls' = <<>>
    /\ UNCHANGED <<cache, cache_expiry, now, engineVars, handlerVars, sharedVars>>

\* lines 162-163
GatherNotecard ==
    /\ pc = "gatherNotecard"
    /\ IF notecardFirmwareVersion = PyNone
       THEN \/ \E d \in HistoryAnswers :
                 /\ calls' = Append(calls, Call("history", args.deviceUID, Notecard, PyNone, PyDict(d)))
                 /\ notecardFirmwareVersion' = fetchDeviceFirmwareVersion(d)
                 /\ pc' = "gatherHost"
                 /\ UNCHANGED result
            \/ /\ calls' = Append(calls, Call("history", args.deviceUID, Notecard, PyNone, Raised("Exception")))
               /\ Raise("CollaboratorFailure")
               /\ UNCHANGED notecardFirmwareVersion
       ELSE /\ pc' = "gatherHost"
            /\ UNCHANGED <<calls, notecardFirmwareVersion, result>>
    /\ UNCHANGED <<args, hostFirmwareVersion, ruleID, targetVersions, file, ncMessage,
                   cache, cache_expiry, now, invocations, engineVars, handlerVars, sharedVars>>

\* mutant: the host history is fetched whatever the caller supplied
GatherHost_always ==
    /\ pc = "gatherHost"
    /\ \/ \E d \in HistoryAnswers :
            /\ calls' = Append(calls, Call("history", args.deviceUID, Host, PyNone, PyDict(d)))
            /\ hostFirmwareVersion' = fetchDeviceFirmwareVersion(d)
            /\ pc' = "decide"
            /\ UNCHANGED result
       \/ /\ calls' = Append(calls, Call("history", args.deviceUID, Host, PyNone, Raised("Exception")))
          /\ Raise("CollaboratorFailure")
          /\ UNCHANGED hostFirmwareVersion
    /\ UNCHANGED <<args, notecardFirmwareVersion, ruleID, targetVersions, file, ncMessage,
                   cache, cache_expiry, now, invocations, engineVars, handlerVars, sharedVars>>

\* lines 165-166
GatherHost ==
    /\ pc = "gatherHost"
    /\ IF hostFirmwareVersion = PyNone
       THEN \/ \E d \in HistoryAnswers :
                 /\ calls' = Append(calls, Call("history", args.deviceUID, Host, PyNone, PyDict(d)))
                 /\ hostFirmwareVersion' = fetchDeviceFirmwareVersion(d)
                 /\ pc' = "decide"
                 /\ UNCHANGED result
            \/ /\ calls' = Append(calls, Call("history", args.deviceUID, Host, PyNone, Raised("Exception")))
               /\ Raise("CollaboratorFailure")
               /\ UNCHANGED hostFirmwareVersion
       ELSE /\ pc' = "decide"
            /\ UNCHANGED <<calls, hostFirmwareVersion, result>>
    /\ UNCHANGED <<args, notecardFirmwareVersion, ruleID, targetVersions, file, ncMessage,
                   cache, cache_expiry, now, invocations, engineVars, handlerVars, sharedVars>>

\* mutant: a null target is not told from a target
decision_noSatisfied(id, target) ==
    IF id = PyNone THEN "nomatch" ELSE "update"

\* the tests of lines 170 and 174-175 on what the rules returned
decision(id, target) ==
    IF id = PyNone THEN "nomatch"
    ELSE IF target = PyNone THEN "satisfied"
    ELSE "update"

\* lines 168-176
Decide ==
    /\ pc = "decide"
    /\ LET t == mf_getFirmwareUpdateTargets(args.fleetUID, notecardFirmwareVersion,
                                            hostFirmwareVersion, args.rules)
       IN  IF t.kind = "raise"
           THEN Raise(t.exc) /\ UNCHANGED <<ruleID, targetVersions>>
           ELSE /\ ruleID' = t.id
                /\ targetVersions' = t.target
                /\ CASE decision(t.id, t.target) = "nomatch" -> Return(NoRuleMessage)
                     [] decision(t.id, t.target) = "satisfied" -> Return(SatisfiedMessage(t.id))
                     [] OTHER -> pc' = "statusNotecard" /\ UNCHANGED result
    /\ UNCHANGED <<args, notecardFirmwareVersion, hostFirmwareVersion, file, ncMessage,
                   calls, cache, cache_expiry, now, invocations, engineVars, handlerVars, sharedVars>>

\* mutant: only the host's answer is looked at
updateInProgress_hostOnly(firmwareType, updateStatus) ==
    firmwareType = Host /\ Truthy(Get(updateStatus, "dfu_in_progress", PyBool(FALSE)))

\* mutant: only the Notecard's answer is looked at
updateInProgress_notecardOnly(firmwareType, updateStatus) ==
    firmwareType = Notecard /\ Truthy(Get(updateStatus, "dfu_in_progress", PyBool(FALSE)))

\* the test made on the answer of the status query for firmwareType (line 181
\* for the Notecard, line 186 for the host): updateStatus.get("dfu_in_progress", False)
updateInProgress(firmwareType, updateStatus) ==
    Truthy(Get(updateStatus, "dfu_in_progress", PyBool(FALSE)))

\* mutant: the answer of the Notecard status query is not looked at
StatusNotecard_neverBlocks ==
    /\ pc = "statusNotecard"
    /\ \/ \E updateStatus \in StatusAnswers :
            /\ calls' = Append(calls, Call("status", args.deviceUID, Notecard, PyNone, PyDict(updateStatus)))
            /\ pc' = "statusHost"
            /\ UNCHANGED result
       \/ /\ calls' = Append(calls, Call("status", args.deviceUID, Notecard, PyNone, Raised("Exception")))
          /\ Raise("CollaboratorFailure")
    /\ UNCHANGED <<args, notecardFirmwareVersion, hostFirmwareVersion, ruleID, targetVersions,
                   file, ncMessage, cache, cache_expiry, now, invocations, engineVars, handlerVars, sharedVars>>

\* lines 179-182
StatusNotecard ==
    /\ pc = "statusNotecard"
    /\ \/ \E updateStatus \in StatusAnswers :
            /\ calls' = Append(calls, Call("status", args.deviceUID, Notecard, PyNone, PyDict(updateStatus)))
            /\ IF updateInProgress(Notecard, updateStatus)
               THEN Return(BlockedMessage(ruleID, "Notecard"))
               ELSE pc' = "statusHost" /\ UNCHANGED result
       \/ /\ calls' = Append(calls, Call("status", args.deviceUID, Notecard, PyNone, Raised("Exception")))
          /\ Raise("CollaboratorFailure")
    /\ UNCHANGED <<args, notecardFirmwareVersion, hostFirmwareVersion, ruleID, targetVersions,
                   file, ncMessage, cache, cache_expiry, now, invocations, engineVars, handlerVars, sharedVars>>

\* mutant: the answer of the host status query is not looked at
StatusHost_neverBlocks ==
    /\ pc = "statusHost"
    /\ \/ \E updateStatus \in StatusAnswers :
            /\ calls' = Append(calls, Call("status", args.deviceUID, Host, PyNone, PyDict(updateStatus)))
            /\ pc' = "resolveNotecard"
            /\ UNCHANGED result
       \/ /\ calls' = Append(calls, Call("status", args.deviceUID, Host, PyNone, Raised("Exception")))
          /\ Raise("CollaboratorFailure")
    /\ UNCHANGED <<args, notecardFirmwareVersion, hostFirmwareVersion, ruleID, targetVersions,
                   file, ncMessage, cache, cache_expiry, now, invocations, engineVars, handlerVars, sharedVars>>

\* lines 184-187
StatusHost ==
    /\ pc = "statusHost"
    /\ \/ \E updateStatus \in StatusAnswers :
            /\ calls' = Append(calls, Call("status", args.deviceUID, Host, PyNone, PyDict(updateStatus)))
            /\ IF updateInProgress(Host, updateStatus)
               THEN Return(BlockedMessage(ruleID, "Host"))
               ELSE pc' = "resolveNotecard" /\ UNCHANGED result
       \/ /\ calls' = Append(calls, Call("status", args.deviceUID, Host, PyNone, Raised("Exception")))
          /\ Raise("CollaboratorFailure")
    /\ UNCHANGED <<args, notecardFirmwareVersion, hostFirmwareVersion, ruleID, targetVersions,
                   file, ncMessage, cache, cache_expiry, now, invocations, engineVars, handlerVars, sharedVars>>

\* the current version manageFirmware passes for a firmware type (lines 190-191)
CurrentVersion(firmwareType) ==
    IF firmwareType = Notecard THEN notecardFirmwareVersion ELSE hostFirmwareVersion

ResolvePc(firmwareType) ==
    IF firmwareType = Notecard THEN "resolveNotecard" ELSE "resolveHost"

RetrievePc(firmwareType) ==
    IF firmwareType = Notecard THEN "retrieveNotecard" ELSE "retrieveHost"

RequestPc(firmwareType) ==
    IF firmwareType = Notecard THEN "requestNotecard" ELSE "requestHost"

\* requestUpdateToTargetVersion returns m: line 190 keeps the Notecard message,
\* lines 191-195 join the messages and return
Deliver(firmwareType, m) ==
    IF firmwareType = Notecard
    THEN /\ ncMessage' = m
         /\ pc' = ResolvePc(Host)
         /\ UNCHANGED result
    ELSE /\ Return(Join(RuleMessage(ruleID), ncMessage, m))
         /\ UNCHANGED ncMessage

\* mutant: the target is not compared with the current version
resolution_noSkip(fw, currentVersion) ==
    IF fw = PyNone THEN "norequest" ELSE "retrieve"

\* mutant: every target goes on to the cache
resolution_alwaysRetrieve(fw, currentVersion) == "retrieve"

\* the two tests of requestUpdateToTargetVersion on the target fw of a channel
\* (lines 140 and 143): no request, skip, or go on to the cache
resolution(fw, currentVersion) ==
    IF fw = PyNone THEN "norequest"
    ELSE IF fw = currentVersion THEN "skip"
    ELSE "retrieve"

\* requestUpdateToTargetVersion, lines 138-144
Resolve(firmwareType) ==
    /\ pc = ResolvePc(firmwareType)
    /\ IF targetVersions.t # "dict"
       THEN Raise("AttributeError") /\ UNCHANGED ncMessage
       ELSE LET fw == Get(targetVersions.d, firmwareType, PyNone)
                r == resolution(fw, CurrentVersion(firmwareType))
            IN  IF r = "norequest"
                THEN Deliver(firmwareType, NoRequestMessage(firmwareType))
                ELSE IF r = "skip"
                THEN Deliver(firmwareType, SkipMessage(firmwareType, fw))
                ELSE /\ pc' = RetrievePc(firmwareType)
                     /\ UNCHANGED <<result, ncMessage>>
    /\ UNCHANGED <<args, notecardFirmwareVersion, hostFirmwareVersion, ruleID, targetVersions,
                   file, calls, cache, cache_expiry, now, invocations, engineVars, handlerVars, sharedVars>>

\* requestUpdateToTargetVersion line 146: FirmwareCache.retrieve, which calls
\* FirmwareCache.update when its test says so
Retrieve(firmwareType) ==
    /\ pc = RetrievePc(firmwareType)
    /\ LET fw == Get(targetVersions.d, firmwareType, PyNone)
           entered == Append(calls, Call("retrieve", args.deviceUID, firmwareType, fw, PyNone))
           Looked(c, log) ==
               LET f == lookup(c, firmwareType, fw)
               IN  /\ calls' = Append(log, Call("retrieved", args.deviceUID, firmwareType, fw, f))
                   /\ IF IsRaised(f)
                      THEN Raise(f.exc) /\ UNCHANGED file
                      ELSE /\ file' = f
                           /\ pc' = RequestPc(firmwareType)
                           /\ UNCHANGED result
       IN  IF retrieveMustUpdate(now, cache_expiry)
           THEN LET ts == now
                IN  \/ \E response \in Catalogs :
                         LET c == BuildCache(response, 1, EmptyCache)
                             log == Append(entered, Call("catalog", "", "", PyNone, PyList(response)))
                         IN  IF c = Raised("KeyError")
                             THEN /\ calls' = log
                                  /\ Raise("KeyError")
                                  /\ UNCHANGED <<file, cache, cache_expiry>>
                             ELSE /\ cache' = c
                                  /\ cache_expiry' = ts + expiration_duration_seconds
                                  /\ Looked(c, log)
                    \/ /\ calls' = Append(entered, Call("catalog", "", "", PyNone, Raised("Exception")))
                       /\ Raise("CollaboratorFailure")
                       /\ UNCHANGED <<file, cache, cache_expiry>>
           ELSE /\ Looked(cache, entered)
                /\ UNCHANGED <<cache, cache_expiry>>
    /\ UNCHANGED <<args, notecardFirmwareVersion, hostFirmwareVersion, ruleID, targetVersions,
                   ncMessage, now, invocations, engineVars, handlerVars, sharedVars>>

\* mutant: a failure of the update request is caught and the call goes on
Request_catchesFailure(firmwareType) ==
    /\ pc = RequestPc(firmwareType)
    /\ LET fw == Get(targetVersions.d, firmwareType, PyNone)
       IN  \/ /\ calls' = Append(calls, Call("request", args.deviceUID, firmwareType, file, PyNone))
              /\ Deliver(firmwareType,
                         RequestedMessage(firmwareType, CurrentVersion(firmwareType), fw))
           \/ /\ calls' = Append(calls, Call("request", args.deviceUID, firmwareType, file,
                                             Raised("Exception")))
              /\ Deliver(firmwareType, NoRequestMessage(firmwareType))
    /\ UNCHANGED <<args, notecardFirmwareVersion, hostFirmwareVersion, ruleID, targetVersions,
                   file, cache, cache_expiry, now, invocations, engineVars, handlerVars, sharedVars>>

\* requestUpdateToTargetVersion, lines 148-153
Request(firmwareType) ==
    /\ pc = RequestPc(firmwareType)
    /\ LET fw == Get(targetVersions.d, firmwareType, PyNone)
       IN  \/ /\ calls' = Append(calls, Call("request", args.deviceUID, firmwareType, file, PyNone))
              /\ Deliver(firmwareType,
                         RequestedMessage(firmwareType, CurrentVersion(firmwareType), fw))
           \/ /\ calls' = Append(calls, Call("request", args.deviceUID, firmwareType, file,
                                             Raised("Exception")))
              /\ Raise("CollaboratorFailure")
              /\ UNCHANGED ncMessage
    /\ UNCHANGED <<args, notecardFirmwareVersion, hostFirmwareVersion, ruleID, targetVersions,
                   file, cache, cache_expiry, now, invocations, engineVars, handlerVars, sharedVars>>

\* the process is ready for the next call; the cache outlives the call
NextCall ==
    /\ pc = "done"
    /\ pc' = "idle"
    /\ args' = NoArgs
    /\ notecardFirmwareVersion' = PyNone
    /\ hostFirmwareVersion' = PyNone
    /\ ruleID' = PyNone
    /\ targetVersions' = PyNone
    /\ file' = PyNone
    /\ ncMessage' = <<>>
    /\ result' = NotRun
    /\ calls' = <<>>
    /\ UNCHANGED <<cache, cache_expiry, now, invocations, engineVars, handlerVars, sharedVars>>

\* time passes; the clock is read by FirmwareCache.update only, so the steps of
\* the clock that matter are those taken just before a retrieval
Tick ==
    /\ pc \in {RetrievePc(Notecard), RetrievePc(Host)}
    /\ now < MaxTime
    /\ now' = now + 1
    /\ UNCHANGED <<pc, args, notecardFirmwareVersion, hostFirmwareVersion, ruleID,
                   targetVersions, file, ncMessage, result, calls, cache, cache_expiry,
                   invocations, engineVars, handlerVars, sharedVars>>

Next ==
    \/ Invoke
    \/ GatherNotecard
    \/ GatherHost
    \/ Decide
    \/ StatusNotecard
    \/ StatusHost
    \/ \E firmwareType \in FirmwareTypes : Resolve(firmwareType)
    \/ \E firmwareType \in FirmwareTypes : Retrieve(firmwareType)
    \/ \E firmwareType \in FirmwareTypes : Request(firmwareType)
    \/ NextCall
    \/ Tick

Spec == Init /\ [][Next]_vars

----------------------------------------------------------------------------
(* rules_engine.py: one evaluation of a rule set against device attributes *)

\* a mapping given as a set of <<key, value>> pairs
FromPairs(S) == [k \in {p[1] : p \in S} |-> (CHOOSE p \in S : p[1] = k)[2]]

VerMajor == <<"firmware_notecard", Dot, "ver_major">>

VerMinor == <<"firmware_notecard", Dot, "ver_minor">>

VerPatch == <<"firmware_notecard", Dot, "ver_patch">>

FirmwareOf(major, minor, patch) ==
    PyDict(FromPairs({<< <<"ver_major">>, major >>, << <<"ver_minor">>, minor >>,
                      << <<"ver_patch">>, patch >>}))

\* values of the attribute firmware_notecard; none of them: the attribute is absent
NotecardFirmwares == {
    {},
    {FirmwareOf(PyInt(7), PyInt(5), PyInt(1))},
    {FirmwareOf(PyInt(7), PyInt(4), PyInt(1))},
    {FirmwareOf(PyInt(8), PyInt(1), PyInt(3))},
    {FirmwareOf(PyStr("7"), PyInt(5), PyInt(1))},
    {PyStr("7.5.1")},
    {FirmwareOf(PyDict(FromPairs({<< <<"raw">>, PyInt(7) >>})), PyInt(5), PyInt(1))},
    {PyDict(FromPairs({<< <<"built">>, PyStr("2024-01-15") >>}))}
}

FleetLists == {{}, {PyList(<<>>)}, {PyList(<<PyStr(OtherFleet)>>)},
               {PyList(<<PyStr(OtherFleet), PyStr(UpdateFleet)>>)}}

NotecardVersions == {{}, {PyNone}, {V1}}

\* values of the attribute fleet
FleetUIDs == {{}, {Fleet1}}

DeviceDatas ==
    {FromPairs({<< <<"firmware_notecard">>, x >> : x \in fw}
               \cup {<< <<"fleets">>, x >> : x \in fl}
               \cup {<< <<"notecard">>, x >> : x \in nv}
               \cup {<< <<"fleet">>, x >> : x \in fu}) :
        fw \in NotecardFirmwares, fl \in FleetLists, nv \in NotecardVersions,
        fu \in FleetUIDs}

\* rules.py: DevicesInUpdateFleet
DevicesInUpdateFleet == <<
    D2("conditions", PyItems(<< <<VerMajor, PyInt(7)>>, <<VerMinor, PyInt(5)>>,
                                <<VerPatch, PyInt(1)>> >>),
       "target_versions", PyDict(D1(Notecard, PyStr("7.5.2.17004")))),
    D2("conditions", PyItems(<< <<VerMajor, PyFn("majorBelow8")>>,
                                <<<<"fleets">>, PyFn("fleetsContainUpdateFleet")>> >>),
       "target_versions", PyDict(D1(Notecard, PyStr("8.1.3.17044")))) >>

\* rules in the format rules_engine.getFirmwareUpdateTargets reads
EngineRules == {
    DevicesInUpdateFleet[1],
    DevicesInUpdateFleet[2],
    D3("id", PyStr("always-match"), "conditions", PyNone,
       "target_versions", PyStr("update-available")),
    D3("id", PyStr("empty"), "conditions", PyItems(<<>>), "target_versions", PyNone),
    D2("id", PyNone, "target_versions", PyNone),
    D1("target_versions", PyDict(D2(Notecard, V2, Host, V2))),
    D3("id", PyStr("at-v1"), "conditions", PyItems(<< <<<<"notecard">>, V1>> >>),
       "target_versions", PyDict(D1(Host, V2))),
    D2("conditions", PyItems(<< <<<<"fleets">>, PyFn("fleetsContainUpdateFleet")>>,
                                <<<<"notecard">>, PyNone>> >>),
       "target_versions", PyDict(D1(Notecard, V2))),
    D2("conditions", PyItems(<< <<<<"fleet">>, PyFn("fleetsContainUpdateFleet")>>,
                                <<<<"notecard">>, PyFn("majorBelow8")>> >>),
       "target_versions", PyDict(D1(Host, V3)))
}

InitEngine ==
    /\ pc = "idle"
    /\ args = NoArgs
    /\ notecardFirmwareVersion = PyNone
    /\ hostFirmwareVersion = PyNone
    /\ ruleID = PyNone
    /\ targetVersions = PyNone
    /\ file = PyNone
    /\ ncMessage = <<>>
    /\ result = NotRun
    /\ calls = <<>>
    /\ cache = <<>>
    /\ cache_expiry = 0
    /\ now = 0
    /\ invocations = 0
    /\ e_device \in DeviceDatas
    /\ e_rules \in RuleSetsOf(EngineRules)
    /\ e_out = NotRun
    /\ e_local = NotRun
    /\ e_path = <<>>
    /\ e_value = NotRun
    /\ e_again = NotRun
    /\ e_checks = NoChecks
    /\ HandlerIdle
    /\ NoThreads

\* mutant: line 140 wraps the caller's bare rule in place
Evaluate_wrapsInPlace ==
    /\ e_out = NotRun
    /\ e_out' = engine_getFirmwareUpdateTargets(e_device, e_rules)
    /\ e_rules' = PyList(Normalize(e_rules))
    /\ e_checks' = [e_checks EXCEPT !.engine = engine_checks(e_device, e_rules)]
    /\ UNCHANGED <<e_device, e_local, e_path, e_value, e_again, mfVars, handlerVars, sharedVars>>

\* rules_engine.getFirmwareUpdateTargets(device_data, rules); line 140 binds
\* the local name rules anew and no line writes to device_data or to a rule,
\* so the caller's objects are as before
Evaluate ==
    /\ e_out = NotRun
    /\ e_out' = engine_getFirmwareUpdateTargets(e_device, e_rules)
    /\ e_checks' = [e_checks EXCEPT !.engine = engine_checks(e_device, e_rules)]
    /\ UNCHANGED <<e_device, e_rules, e_local, e_path, e_value, e_again, mfVars, handlerVars, sharedVars>>

\* a second call of rules_engine.getFirmwareUpdateTargets on the same objects
EvaluateAgain ==
    /\ e_out # NotRun
    /\ e_again = NotRun
    /\ e_again' = engine_getFirmwareUpdateTargets(e_device, e_rules)
    /\ e_checks' = [e_checks EXCEPT !.again = engine_checks(e_device, e_rules)]
    /\ UNCHANGED <<e_device, e_rules, e_out, e_local, e_path, e_value, mfVars, handlerVars, sharedVars>>

\* manage_firmware.getFirmwareUpdateTargets(fleetUID, notecardVersion, hostVersion,
\* rules), the evaluator manageFirmware calls at line 168, on the attributes
\* "fleet", "notecard" and "host" of the same device and the same rules
EvaluateLocal ==
    /\ e_local = NotRun
    /\ e_local' = mf_getFirmwareUpdateTargets(Get(e_device, <<"fleet">>, PyNone),
                                              Get(e_device, <<"notecard">>, PyNone),
                                              Get(e_device, <<"host">>, PyNone),
                                              e_rules)
    /\ e_checks' = [e_checks EXCEPT !.local = mf_checks(Get(e_device, <<"fleet">>, PyNone),
                                                        Get(e_device, <<"notecard">>, PyNone),
                                                        Get(e_device, <<"host">>, PyNone),
                                                        e_rules)]
    /\ UNCHANGED <<e_device, e_rules, e_out, e_path, e_value, e_again, mfVars, handlerVars, sharedVars>>

NextEngine == Evaluate \/ EvaluateLocal \/ EvaluateAgain

SpecEngine == InitEngine /\ [][NextEngine]_vars

----------------------------------------------------------------------------
(* rules_engine.py: one resolution of a field path *)

FieldPaths == {
    <<"fleets">>,
    <<"missing">>,
    VerMajor,
    <<"firmware_notecard", Dot, "missing">>,
    <<"missing", Dot, "ver_major">>,
    <<"firmware_notecard", Dot, "ver_major", Dot, "raw">>,
    <<"firmware_notecard", Dot, "ver_minor", Dot, "raw">>,
    <<"fleets", Dot, "ver_major">>
}

InitResolve ==
    /\ pc = "idle"
    /\ args = NoArgs
    /\ notecardFirmwareVersion = PyNone
    /\ hostFirmwareVersion = PyNone
    /\ ruleID = PyNone
    /\ targetVersions = PyNone
    /\ file = PyNone
    /\ ncMessage = <<>>
    /\ result = NotRun
    /\ calls = <<>>
    /\ cache = <<>>
    /\ cache_expiry = 0
    /\ now = 0
    /\ invocations = 0
    /\ e_device \in DeviceDatas
    /\ e_rules = PyList(<<>>)
    /\ e_out = NotRun
    /\ e_local = NotRun
    /\ e_path \in FieldPaths
    /\ e_value = NotRun
    /\ e_again = NotRun
    /\ e_checks = NoChecks
    /\ HandlerIdle
    /\ NoThreads

\* resolve_field_value(field_name)
ResolveField ==
    /\ e_value = NotRun
    /\ e_value' = resolve_field_value(e_device, e_path)
    /\ UNCHANGED <<e_device, e_rules, e_out, e_local, e_path, e_again, e_checks, mfVars, handlerVars, sharedVars>>

NextResolve == ResolveField

SpecResolve == InitResolve /\ [][NextResolve]_vars

----------------------------------------------------------------------------
(* manage_firmware.py: the FirmwareCache object used on its own *)

\* the readings of time.time(): around the start, one and two lifetimes later
ClockValues ==
    {0, 1,
     expiration_duration_seconds - 1, expiration_duration_seconds,
     expiration_duration_seconds + 1,
     2 * expiration_duration_seconds - 1, 2 * expiration_duration_seconds,
     2 * expiration_duration_seconds + 1}

\* answers of fetchAvailableFirmware: those of the orchestrator's runs and one
\* with a filename that is not a string
CacheCatalogs ==
    Catalogs \cup {<<Entry(PyStr(Host), V1, PyInt(7)),
                     Entry(PyStr(Notecard), V1, PyStr("notecard-8.1.3.bin"))>>}

\* the firmware types and versions retrieve is asked for
RetrieveTypes == FirmwareTypes \cup {"other"}

RetrieveVersions == {V1, V2, V3}

\* the variables of manageFirmware the cache object does not touch
cacheFrame == <<pc, args, notecardFirmwareVersion, hostFirmwareVersion, ruleID,
                targetVersions, file, ncMessage, invocations>>

\* FirmwareCache.__init__
InitCache ==
    /\ pc = "idle"
    /\ args = NoArgs
    /\ notecardFirmwareVersion = PyNone
    /\ hostFirmwareVersion = PyNone
    /\ ruleID = PyNone
    /\ targetVersions = PyNone
    /\ file = PyNone
    /\ ncMessage = <<>>
    /\ result = NotRun
    /\ calls = <<>>
    /\ cache = <<>>
    /\ cache_expiry = 0
    /\ now = 0
    /\ invocations = 0
    /\ e_device = <<>>
    /\ e_rules = PyList(<<>>)
    /\ e_out = NotRun
    /\ e_local = NotRun
    /\ e_path = <<>>
    /\ e_value = NotRun
    /\ e_again = NotRun
    /\ e_checks = NoChecks
    /\ HandlerIdle
    /\ NoThreads

\* mutant: the map is built in place, in self.cache, and a failure leaves
\* what was built so far
CacheUpdate_buildsInPlace ==
    /\ LET ts == now
           entered == <<Call("update", "", "", PyNone, PyNone)>>
       IN  \/ \E response \in CacheCatalogs :
                LET c == BuildCache(response, 1, EmptyCache)
                    log == Append(entered, Call("catalog", "", "", PyInt(ts), PyList(response)))
                IN  /\ calls' = log
                    /\ IF c = Raised("KeyError")
                       THEN /\ result' = Failed("KeyError")
                            /\ cache' = EmptyCache
                            /\ UNCHANGED cache_expiry
                       ELSE /\ result' = Returned(PyNone)
                            /\ cache' = c
                            /\ cache_expiry' = ts + expiration_duration_seconds
           \/ /\ calls' = Append(entered, Call("catalog", "", "", PyInt(ts), Raised("Exception")))
              /\ result' = Failed("CollaboratorFailure")
              /\ UNCHANGED <<cache, cache_expiry>>
    /\ UNCHANGED <<now, cacheFrame, engineVars, handlerVars, sharedVars>>

\* FirmwareCache.update(project), lines 24-38; calls holds the log of the
\* operation: the catalog call carries the time read at line 25
CacheUpdate ==
    /\ LET ts == now
           entered == <<Call("update", "", "", PyNone, PyNone)>>
       IN  \/ \E response \in CacheCatalogs :
                LET c == BuildCache(response, 1, EmptyCache)
                    log == Append(entered, Call("catalog", "", "", PyInt(ts), PyList(response)))
                IN  /\ calls' = log
                    /\ IF c = Raised("KeyError")
                       THEN /\ result' = Failed("KeyError")
                            /\ UNCHANGED <<cache, cache_expiry>>
                       ELSE /\ result' = Returned(PyNone)
                            /\ cache' = c
                            /\ cache_expiry' = ts + expiration_duration_seconds
           \/ /\ calls' = Append(entered, Call("catalog", "", "", PyInt(ts), Raised("Exception")))
              /\ result' = Failed("CollaboratorFailure")
              /\ UNCHANGED <<cache, cache_expiry>>
    /\ UNCHANGED <<now, cacheFrame, engineVars, handlerVars, sharedVars>>

\* FirmwareCache.retrieve(project, firmwareType, version), lines 43-57
CacheRetrieve(firmwareType, version) ==
    /\ LET entered == <<Call("retrieve", "", firmwareType, version, PyNone)>>
           Looked(c, log) ==
               LET f == lookup(c, firmwareType, version)
               IN  /\ calls' = Append(log, Call("retrieved", "", firmwareType, version, f))
                   /\ result' = IF IsRaised(f) THEN Failed(f.exc) ELSE Returned(f)
       IN  IF retrieveMustUpdate(now, cache_expiry)
           THEN LET ts == now
                IN  \/ \E response \in CacheCatalogs :
                         LET c == BuildCache(response, 1, EmptyCache)
                             log == Append(entered, Call("catalog", "", "", PyInt(ts), PyList(response)))
                         IN  IF c = Raised("KeyError")
                             THEN /\ calls' = log
                                  /\ result' = Failed("KeyError")
                                  /\ UNCHANGED <<cache, cache_expiry>>
                             ELSE /\ cache' = c
                                  /\ cache_expiry' = ts + expiration_duration_seconds
                                  /\ Looked(c, log)
                    \/ /\ calls' = Append(entered, Call("catalog", "", "", PyInt(ts), Raised("Exception")))
                       /\ result' = Failed("CollaboratorFailure")
                       /\ UNCHANGED <<cache, cache_expiry>>
           ELSE /\ Looked(cache, entered)
                /\ UNCHANGED <<cache, cache_expiry>>
    /\ UNCHANGED <<now, cacheFrame, engineVars, handlerVars, sharedVars>>

\* time passes between two operations on the cache
CacheTick ==
    /\ \E t \in ClockValues : t > now /\ now' = t
    /\ UNCHANGED <<cache, cache_expiry, calls, result, cacheFrame, engineVars, handlerVars, sharedVars>>

NextCache ==
    \/ CacheUpdate
    \/ \E firmwareType \in RetrieveTypes, version \in RetrieveVersions :
          CacheRetrieve(firmwareType, version)
    \/ CacheTick

SpecCache == InitCache /\ [][NextCache]_vars

----------------------------------------------------------------------------
(* auth.py and main.py: one call of lambda_handler *)

\* a key the event does not have
Absent == [t |-> "absent"]

\* a str kept as the sequence of its pieces; the piece " " is white space
Text(p) == [t |-> "text", p |-> p]

\* a str that holds the JSON text of the value v
JsonText(v) == [t |-> "json", v |-> v]

\* a str that starts with { and ends with } and is no JSON text
Broken == PyStr("{broken}")

\* isinstance(v, str)
IsStr(v) == v.t \in {"str", "text", "json"}

Secret == "s3cret"

\* str.lower() of a header name or of a piece of a str
Lower(s) ==
    CASE s = "X-API-Key" -> "x-api-key"
      [] s = "Authorization" -> "authorization"
      [] s = "X-Dry-Run" -> "x-dry-run"
      [] s = "Bearer " -> "bearer "
      [] s = "YES" -> "yes"
      [] s = "True" -> "true"
      [] OTHER -> s

RECURSIVE LStrip(_)
LStrip(p) == IF Len(p) > 0 /\ p[1] = " " THEN LStrip(Tail(p)) ELSE p

RECURSIVE RStrip(_)
RStrip(p) == IF Len(p) > 0 /\ p[Len(p)] = " " THEN RStrip(SubSeq(p, 1, Len(p) - 1)) ELSE p

\* str.strip()
Strip(p) == RStrip(LStrip(p))

\* a or b
PyOr(a, b) == IF Truthy(a) THEN a ELSE b

AuthResult(success, error) == [success |-> success, error |-> error]

\* auth.py line 68: {k.lower(): v for k, v in headers.items()}
headers_lower(headers) ==
    [k \in {Lower(n) : n \in DOMAIN headers} |->
        headers[CHOOSE n \in DOMAIN headers : Lower(n) = k]]

\* mutant: the token is not compared with the expected token
authenticate_request_noComparison(ev, expected) ==
    LET headers == IF ev.headers = Absent THEN PyDict(<<>>) ELSE ev.headers
    IN  IF headers.t # "dict"
        THEN AuthResult(FALSE, PyStr("Authentication system error"))
        ELSE LET hl == headers_lower(headers.d)
                 auth_header == PyOr(Get(hl, "x-api-key", PyNone),
                                     Get(hl, "authorization", PyNone))
             IN  IF auth_header = PyNone
                 THEN AuthResult(FALSE, PyStr("Missing authorization header"))
                 ELSE IF auth_header.t # "text"
                 THEN AuthResult(FALSE, PyStr("Authentication system error"))
                 ELSE IF Len(Strip(auth_header.p)) = 0
                 THEN AuthResult(FALSE, PyStr("Empty authorization token"))
                 ELSE IF ~Truthy(expected)
                 THEN AuthResult(FALSE, PyStr("Authentication not configured"))
                 ELSE AuthResult(TRUE, PyNone)

\* auth.py lines 18-101
authenticate_request(ev, expected) ==
    LET headers == IF ev.headers = Absent THEN PyDict(<<>>) ELSE ev.headers
    IN  IF headers.t # "dict"
        THEN AuthResult(FALSE, PyStr("Authentication system error"))
        ELSE LET hl == headers_lower(headers.d)
                 auth_header == PyOr(Get(hl, "x-api-key", PyNone),
                                     Get(hl, "authorization", PyNone))
             IN  IF auth_header = PyNone
                 THEN AuthResult(FALSE, PyStr("Missing authorization header"))
                 ELSE IF auth_header.t # "text"
                 THEN AuthResult(FALSE, PyStr("Authentication system error"))
                 ELSE IF Len(Strip(auth_header.p)) = 0
                 THEN AuthResult(FALSE, PyStr("Empty authorization token"))
                 ELSE LET token == Strip(IF Lower(auth_header.p[1]) = "bearer "
                                         THEN Tail(auth_header.p)
                                         ELSE auth_header.p)
                      IN  IF Len(token) = 0
                          THEN AuthResult(FALSE, PyStr("Empty authorization token"))
                          ELSE IF ~Truthy(expected)
                          THEN AuthResult(FALSE, PyStr("Authentication not configured"))
                          ELSE IF token # expected.p
                          THEN AuthResult(FALSE, PyStr("Invalid authorization token"))
                          ELSE AuthResult(TRUE, PyNone)

TrueSpellings == {"true", "1", "yes", "on"}

\* main.py lines 8-22
str_to_bool(value) ==
    CASE value.t = "none" -> FALSE
      [] value.t = "bool" -> value.b
      [] value.t = "int" -> value.n = 1
      [] value.t = "str" -> Lower(value.s) \in TrueSpellings
      [] value.t = "text" -> Len(value.p) = 1 /\ Lower(value.p[1]) \in TrueSpellings
      [] OTHER -> FALSE

\* json.loads(s)
json_loads(s) ==
    IF s.t = "json" THEN s.v
    ELSE IF IsStr(s) THEN Raised("JSONDecodeError")
    ELSE Raised("TypeError")

\* main.py lines 24-50
parse_firmware_json(firmware_data) ==
    IF ~IsStr(firmware_data) THEN firmware_data
    ELSE IF ~((firmware_data.t = "json" /\ firmware_data.v.t = "dict") \/ firmware_data = Broken)
    THEN firmware_data
    ELSE IF IsRaised(json_loads(firmware_data)) THEN firmware_data
    ELSE json_loads(firmware_data)

\* main.py lines 52-73
parse_firmware_fields(payload) ==
    [k \in DOMAIN payload |->
        IF k \in {<<"firmware_notecard">>, <<"firmware_host">>}
        THEN parse_firmware_json(payload[k])
        ELSE payload[k]]

\* main.py lines 106-108
PayloadOf(ev) ==
    IF ev.body = Absent THEN Raised("KeyError")
    ELSE IF ev.body.t = "dict" THEN ev.body
    ELSE json_loads(ev.body)

\* main.py lines 117-120
DryRunFlag(ev, payload) ==
    IF str_to_bool(Get(payload, <<"is_dry_run">>, PyNone)) THEN PyBool(TRUE)
    ELSE LET headers == IF ev.headers = Absent THEN PyDict(<<>>) ELSE ev.headers
             query == IF ev.queryStringParameters = Absent THEN PyDict(<<>>)
                      ELSE ev.queryStringParameters
         IN  IF headers.t # "dict" THEN Raised("AttributeError")
             ELSE IF str_to_bool(Get(headers.d, "x-dry-run", PyNone)) THEN PyBool(TRUE)
             ELSE IF query.t # "dict" THEN Raised("AttributeError")
             ELSE PyBool(str_to_bool(Get(query.d, "is_dry_run", PyNone)))

\* the parameters main.py line 95 binds: three by position, two by keyword
SessionKeywords == {"project", "deviceUID", "fleetUID", "rules", "is_dry_run"}

\* how the call of manageFirmware at main.py line 95 can end
SessionOutcomes ==
    IF SessionKeywords \subseteq Params
    THEN {Returned(<<"report">>), Failed("CollaboratorFailure")}
    ELSE {Failed(UnexpectedKeyword)}

Respond(statusCode, body) == [kind |-> "return", statusCode |-> statusCode, body |-> body]

\* main.py lines 129-133: the body of the 500 response reads event["body"]
ErrorResponse(ev, exc) ==
    IF ev.body = Absent THEN Failed("KeyError")
    ELSE Respond(500, JsonText(PyDict(D2("error", PyStr(exc), "request_payload", ev.body))))

\* headers of the events
HeaderSets == {
    Absent,
    PyNone,
    PyDict(<<>>),
    PyDict(D1("x-api-key", Text(<<Secret>>))),
    PyDict(D1("Authorization", Text(<<"Bearer ", Secret>>))),
    PyDict(D1("authorization", Text(<<"bearer ", Secret>>))),
    PyDict(D2("X-API-Key", Text(<<>>), "Authorization", Text(<<Secret>>))),
    PyDict(D1("x-api-key", Text(<<" ">>))),
    PyDict(D1("authorization", Text(<<"Bearer ">>))),
    PyDict(D2("x-api-key", Text(<<"wrong">>), "authorization", Text(<<Secret>>))),
    PyDict(D2("x-api-key", Text(<<Secret>>), "x-dry-run", Text(<<"true">>))),
    PyDict(D2("X-API-Key", Text(<<Secret>>), "X-Dry-Run", Text(<<"true">>))),
    PyDict(D1("x-api-key", PyInt(5))),
    PyDict(D1("x-api-key", Text(<<" ", Secret, " ">>))),
    PyDict(D1("authorization", Text(<<" ", "Bearer ", Secret>>)))
}

\* what FIRMWARE_CHECK_AUTH_TOKEN holds
ExpectedTokens == {PyNone, Text(<<>>), Text(<<Secret>>)}

FirmwareInfo == PyDict(FromPairs({<< <<"ver_major">>, PyInt(7) >>}))

\* request payloads
Payloads ==
    {FromPairs({<< <<"device">>, x >> : x \in dv}
               \cup {<< <<"is_dry_run">>, x >> : x \in dr}
               \cup {<< <<"firmware_notecard">>, x >> : x \in fw}) :
        dv \in {{}, {PyStr("dev:868050040074169")}, {PyStr("")}, {PyInt(5)}},
        dr \in {{}, {PyBool(TRUE)}, {PyStr("YES")}, {PyStr("no")}},
        fw \in {{}, {FirmwareInfo}, {JsonText(FirmwareInfo)}, {Broken}}}

Bodies ==
    {Absent, PyNone, PyStr("not json"), JsonText(PyList(<<>>))}
    \cup {PyDict(p) : p \in Payloads}
    \cup {JsonText(PyDict(p)) : p \in Payloads}

Queries == {Absent, PyNone, PyDict(<<>>), PyDict(D1("is_dry_run", Text(<<"1">>)))}

Events == [headers : HeaderSets, body : Bodies, queryStringParameters : Queries]

InitHandler ==
    /\ pc = "idle"
    /\ args = NoArgs
    /\ notecardFirmwareVersion = PyNone
    /\ hostFirmwareVersion = PyNone
    /\ ruleID = PyNone
    /\ targetVersions = PyNone
    /\ file = PyNone
    /\ ncMessage = <<>>
    /\ result = NotRun
    /\ calls = <<>>
    /\ cache = <<>>
    /\ cache_expiry = 0
    /\ now = 0
    /\ invocations = 0
    /\ e_device = <<>>
    /\ e_rules = PyList(<<>>)
    /\ e_out = NotRun
    /\ e_local = NotRun
    /\ e_path = <<>>
    /\ e_value = NotRun
    /\ e_again = NotRun
    /\ e_checks = NoChecks
    /\ event \in Events
    /\ expected_token \in ExpectedTokens
    /\ h_pc = "start"
    /\ session = NotRun
    /\ h_response = NotRun
    /\ NoThreads

\* mutant: the result of the authentication is not looked at
Authenticate_alwaysProceeds ==
    /\ h_pc = "start"
    /\ h_pc' = "authenticated"
    /\ UNCHANGED <<h_response, event, expected_token, session, mfVars, engineVars, sharedVars>>

\* main.py lines 98-103
Authenticate ==
    /\ h_pc = "start"
    /\ LET r == authenticate_request(event, expected_token)
       IN  IF ~r.success
           THEN /\ h_pc' = "done"
                /\ h_response' = Respond(401, r.error)
           ELSE /\ h_pc' = "authenticated"
                /\ UNCHANGED h_response
    /\ UNCHANGED <<event, expected_token, session, mfVars, engineVars, sharedVars>>

\* main.py lines 105-134, with processRoutedSession, lines 87-95
HandleRequest ==
    /\ h_pc = "authenticated"
    /\ h_pc' = "done"
    /\ LET payload == PayloadOf(event)
       IN  IF IsRaised(payload)
           THEN h_response' = ErrorResponse(event, payload.exc) /\ UNCHANGED session
           ELSE IF payload.t # "dict"
           THEN h_response' = ErrorResponse(event, "AttributeError") /\ UNCHANGED session
           ELSE LET deviceUID == Get(payload.d, <<"device">>, PyNone)
                    is_dry_run == DryRunFlag(event, payload.d)
                IN  IF ~Truthy(deviceUID) \/ ~IsStr(deviceUID)
                    THEN /\ h_response' = Respond(400, PyStr("bad request. missing valid device UID from the request"))
                         /\ UNCHANGED session
                    ELSE IF IsRaised(is_dry_run)
                    THEN h_response' = ErrorResponse(event, is_dry_run.exc) /\ UNCHANGED session
                    ELSE \E r \in SessionOutcomes :
                           /\ session' = [kind |-> "call",
                                          deviceUID |-> deviceUID,
                                          payload |-> PyDict(parse_firmware_fields(payload.d)),
                                          rules |-> DevicesInUpdateFleet,
                                          is_dry_run |-> is_dry_run,
                                          outcome |-> r]
                           /\ h_response' =
                                IF r.kind = "raise" THEN ErrorResponse(event, r.exc)
                                ELSE Respond(200, JsonText(PyDict(D2("response", Text(r.value),
                                                                     "request_payload", payload))))
    /\ UNCHANGED <<event, expected_token, mfVars, engineVars, sharedVars>>

NextHandler == Authenticate \/ HandleRequest

SpecHandler == InitHandler /\ [][NextHandler]_vars

----------------------------------------------------------------------------
(* manage_firmware.py: the FirmwareCache object shared by two invocations *)
(* of one process; a step is one read or one write of the object's         *)
(* attributes, or the call of the catalog                                  *)

\* the calls an invocation makes on the cache: retrieve or update
SharedCalls ==
    [op : {"retrieve"}, firmwareType : FirmwareTypes, version : {V2}]
    \cup {[op |-> "update", firmwareType |-> "", version |-> PyNone]}

\* answers of fetchAvailableFirmware
SharedCatalogs == {
    <<Entry(PyStr(Notecard), V2, PyStr("notecard-8.1.4.bin")),
      Entry(PyStr(Host), V2, PyStr("host-8.1.4.bin"))>>,
    <<Entry(PyStr(Notecard), V3, PyStr("notecard-9.1.1.bin"))>>,
    <<Entry(PyStr("other"), V2, PyStr("other.bin"))>>
}

InitShared ==
    /\ pc = "idle"
    /\ args = NoArgs
    /\ notecardFirmwareVersion = PyNone
    /\ hostFirmwareVersion = PyNone
    /\ ruleID = PyNone
    /\ targetVersions = PyNone
    /\ file = PyNone
    /\ ncMessage = <<>>
    /\ result = NotRun
    /\ calls = <<>>
    /\ cache = <<>>
    /\ cache_expiry = 0
    /\ now = 0
    /\ invocations = 0
    /\ e_device = <<>>
    /\ e_rules = PyList(<<>>)
    /\ e_out = NotRun
    /\ e_local = NotRun
    /\ e_path = <<>>
    /\ e_value = NotRun
    /\ e_again = NotRun
    /\ e_checks = NoChecks
    /\ HandlerIdle
    /\ NoThreads

\* what a step of an invocation leaves alone besides the cache object
sharedFrame == <<pc, args, notecardFirmwareVersion, hostFirmwareVersion, ruleID,
                 targetVersions, file, ncMessage, result, calls, invocations,
                 engineVars, handlerVars>>

\* the invocation ends
Ends(t, out) == threads' = [threads EXCEPT ![t].pc = "done", ![t].out = out]

\* the invocation calls firmwareCache.retrieve or firmwareCache.update
SharedCall(t) ==
    /\ threads[t].pc = "idle"
    /\ \E c \in SharedCalls :
         threads' = [threads EXCEPT ![t].pc = IF c.op = "retrieve" THEN "check" ELSE "fetch",
                                    ![t].op = c.op,
                                    ![t].firmwareType = c.firmwareType,
                                    ![t].version = c.version]
    /\ UNCHANGED <<cache, cache_expiry, now, sharedFrame>>

\* line 44: if self._cacheIsExpired:
SharedCheck(t) ==
    /\ threads[t].pc = "check"
    /\ threads' = [threads EXCEPT ![t].pc = IF retrieveMustUpdate(now, cache_expiry)
                                            THEN "fetch" ELSE "checkType",
                                  ![t].stale = cacheIsExpired(now, cache_expiry),
                                  ![t].expiry_seen = cache_expiry]
    /\ UNCHANGED <<cache, cache_expiry, now, sharedFrame>>

\* lines 25-35: the time is read, the catalog is fetched and the new map is
\* built in the local c
SharedFetch(t) ==
    /\ threads[t].pc = "fetch"
    /\ \/ \E response \in SharedCatalogs :
            LET c == BuildCache(response, 1, EmptyCache)
            IN  IF c = Raised("KeyError")
                THEN threads' = [threads EXCEPT ![t].pc = "done", ![t].fetched = TRUE,
                                                ![t].out = Failed("KeyError")]
                ELSE threads' = [threads EXCEPT ![t].pc = "publish", ![t].fetched = TRUE,
                                                ![t].ts = now, ![t].c = c]
       \/ Ends(t, Failed("CollaboratorFailure"))
    /\ UNCHANGED <<cache, cache_expiry, now, sharedFrame>>

\* line 37: self.cache = c
SharedPublish(t) ==
    /\ threads[t].pc = "publish"
    /\ cache' = threads[t].c
    /\ threads' = [threads EXCEPT ![t].pc = "stamp"]
    /\ UNCHANGED <<cache_expiry, now, sharedFrame>>

\* line 38: self.cache_expiry = ts + self._expiration_duration_seconds
SharedStamp(t) ==
    /\ threads[t].pc = "stamp"
    /\ cache_expiry' = threads[t].ts + expiration_duration_seconds
    /\ IF threads[t].op = "update"
       THEN Ends(t, Returned(PyNone))
       ELSE threads' = [threads EXCEPT ![t].pc = "checkType"]
    /\ UNCHANGED <<cache, now, sharedFrame>>

\* line 47: if firmwareType not in self.cache
SharedCheckType(t) ==
    /\ threads[t].pc = "checkType"
    /\ IF threads[t].firmwareType \notin DOMAIN cache
       THEN threads' = [threads EXCEPT ![t].pc = "done",
                                       ![t].seen = Append(@, cache),
                                       ![t].out = Failed("not available")]
       ELSE threads' = [threads EXCEPT ![t].pc = "checkVersion",
                                       ![t].seen = Append(@, cache)]
    /\ UNCHANGED <<cache, cache_expiry, now, sharedFrame>>

\* line 50: if version not in self.cache[firmwareType]; the subscript of a
\* key the map has not is a KeyError
SharedCheckVersion(t) ==
    /\ threads[t].pc = "checkVersion"
    /\ LET out == IF threads[t].firmwareType \notin DOMAIN cache THEN Failed("KeyError")
                  ELSE IF threads[t].version \notin DOMAIN cache[threads[t].firmwareType]
                  THEN Failed("version not available")
                  ELSE NotRun
       IN  threads' = [threads EXCEPT ![t].pc = IF out = NotRun THEN "read" ELSE "done",
                                      ![t].seen = Append(@, cache),
                                      ![t].out = out]
    /\ UNCHANGED <<cache, cache_expiry, now, sharedFrame>>

\* lines 53-57: f = self.cache[firmwareType][version], and its validation
SharedRead(t) ==
    /\ threads[t].pc = "read"
    /\ LET f == lookup(cache, threads[t].firmwareType, threads[t].version)
           out == IF ~IsRaised(f) THEN Returned(f)
                  ELSE IF f.exc = "invalid file name" THEN Failed(f.exc)
                  ELSE Failed("KeyError")
       IN  threads' = [threads EXCEPT ![t].pc = "done",
                                      ![t].seen = Append(@, cache),
                                      ![t].out = out]
    /\ UNCHANGED <<cache, cache_expiry, now, sharedFrame>>

\* time passes
SharedTick ==
    /\ now < MaxTime
    /\ now' = now + 1
    /\ UNCHANGED <<cache, cache_expiry, threads, sharedFrame>>

NextShared ==
    \/ \E t \in Threads :
         \/ SharedCall(t)
         \/ SharedCheck(t)
         \/ SharedFetch(t)
         \/ SharedPublish(t)
         \/ SharedStamp(t)
         \/ SharedCheckType(t)
         \/ SharedCheckVersion(t)
         \/ SharedRead(t)
    \/ SharedTick

SpecShared == InitShared /\ [][NextShared]_vars

----------------------------------------------------------------------------
(* Properties of manageFirmware: vocabulary *)

Indices(op) == {i \in 1..Len(calls) : calls[i].op = op}

IndicesFor(op, firmwareType) == {i \in Indices(op) : calls[i].fw = firmwareType}

\* the caller asked for a dry run
DryRun == "is_dry_run" \in args.keywords

\* some collaborator call of the invocation failed
CollaboratorFailed ==
    \E i \in 1..Len(calls) :
        calls[i].op \in {"history", "status", "catalog", "request"} /\ calls[i].ret.t = "raise"

\* the status query for firmwareType answered that an update is in progress
ReportedInProgress(firmwareType) ==
    \E i \in IndicesFor("status", firmwareType) :
        /\ calls[i].ret.t = "dict"
        /\ "dfu_in_progress" \in DOMAIN calls[i].ret.d
        /\ calls[i].ret.d["dfu_in_progress"] = PyBool(TRUE)

\* sub occurs in s as a run of consecutive tokens
Contains(s, sub) ==
    \E k \in 0..(Len(s) - Len(sub)) : \A j \in 1..Len(sub) : s[k + j] = sub[j]

\* one condition of a rule holds for a value (None: no condition)
ConditionHolds(value, condition) ==
    \/ condition = PyNone
    \/ /\ condition.t = "fn"
       /\ Apply(condition, value).t # "raise"
       /\ Truthy(Apply(condition, value))
    \/ condition.t # "fn" /\ value = condition

ConditionRaises(value, condition) ==
    condition.t = "fn" /\ Apply(condition, value).t = "raise"

ConditionOf(c, key) ==
    IF \E k \in 1..Len(c.items) : c.items[k][1] = key
    THEN c.items[CHOOSE k \in 1..Len(c.items) :
                    c.items[k][1] = key /\ \A j \in 1..(k - 1) : c.items[j][1] # key][2]
    ELSE PyNone

ArgRules == IF args.rules.t = "list" THEN args.rules.items ELSE <<args.rules.d>>

ArgConditions(i) ==
    IF "conditions" \in DOMAIN ArgRules[i] THEN ArgRules[i]["conditions"] ELSE PyNone

\* the three values the conditions of a rule are compared with
Subject(key) ==
    CASE key = <<"notecard">> -> notecardFirmwareVersion
      [] key = <<"host">> -> hostFirmwareVersion
      [] key = <<"fleet">> -> args.fleetUID

ConditionKeys == {<<"notecard">>, <<"host">>, <<"fleet">>}

\* rule i of the call matches the device: it has no conditions, or each of them holds
ArgRuleMatches(i) ==
    \/ ArgConditions(i) = PyNone
    \/ \A key \in ConditionKeys : ConditionHolds(Subject(key), ConditionOf(ArgConditions(i), key))

ArgRuleRaises(i) ==
    /\ ArgConditions(i) # PyNone
    /\ \E key \in ConditionKeys : ConditionRaises(Subject(key), ConditionOf(ArgConditions(i), key))

\* rule i is the rule the call has to act on
IsMatchedRule(i) ==
    /\ i \in 1..Len(ArgRules)
    /\ ArgRuleMatches(i)
    /\ \A k \in 1..(i - 1) : ~ArgRuleMatches(k) /\ ~ArgRuleRaises(k)

ArgRuleId(i) ==
    IF "id" \in DOMAIN ArgRules[i] THEN ArgRules[i]["id"]
    ELSE PyStr("rule-" \o ToString(i))

ArgRuleTarget(i) ==
    IF "targetVersions" \in DOMAIN ArgRules[i] THEN ArgRules[i]["targetVersions"] ELSE PyNone

\* the rules have been evaluated: the arguments were bound and the current
\* versions gathered
Evaluated ==
    /\ pc \notin {"idle", "gatherNotecard", "gatherHost", "decide"}
    /\ result # Failed(UnexpectedKeyword)
    /\ \A i \in Indices("history") : calls[i].ret.t # "raise"

OnlyHistoryCalls == \A i \in 1..Len(calls) : calls[i].op = "history"

----------------------------------------------------------------------------
(* Properties of manageFirmware *)

\* C2: once the Notecard status query has answered that an update is in
\* progress, the call has returned the blocked-on-Notecard message that names
\* the matched rule, the host status was never queried, and no update was
\* requested, nor the cache consulted, for either channel.
C2_NotecardInProgressBlocks ==
    ReportedInProgress(Notecard) =>
        /\ pc = "done"
        /\ \E i \in 1..Len(ArgRules) :
              /\ IsMatchedRule(i)
              /\ result = Returned(<<"According to rule id", Format(ArgRuleId(i)), ",",
                                     "firmware requirements NOT met.  Update not requested because",
                                     "Notecard", "update is in progress">>)
        /\ Indices("status") = IndicesFor("status", Notecard)
        /\ Cardinality(Indices("status")) = 1
        /\ Indices("request") = {}
        /\ Indices("retrieve") = {}
        /\ Indices("catalog") = {}

\* C2 witness: a call blocked by the Notecard whose matched target asks for
\* updates of both channels
C2_Witness ==
    /\ ReportedInProgress(Notecard)
    /\ pc = "done"
    /\ targetVersions = PyDict(D2(Notecard, V2, Host, V2))
    /\ notecardFirmwareVersion = V1
    /\ hostFirmwareVersion = V1

C7_NoRuleMatched ==
    (Evaluated /\ \A i \in 1..Len(ArgRules) : ~ArgRuleMatches(i) /\ ~ArgRuleRaises(i)) =>
        /\ pc = "done"
        /\ result = Returned(<<"No rule conditions met. No updates required">>)
        /\ OnlyHistoryCalls

\* C7 witness: two rules, none of which matches
C7_Witness ==
    /\ Evaluated
    /\ Len(ArgRules) = 2
    /\ \A i \in 1..Len(ArgRules) : ~ArgRuleMatches(i) /\ ~ArgRuleRaises(i)
    /\ result = Returned(NoRuleMessage)

\* C8: when the rule the call acts on has a null target, the call has returned
\* the requirements-met message that names this rule's id and has made no
\* update-status query, no catalog fetch and no update request.
C8_MatchedRuleWithoutTarget ==
    Evaluated =>
        \A i \in 1..Len(ArgRules) :
            (IsMatchedRule(i) /\ ArgRuleTarget(i) = PyNone) =>
                /\ pc = "done"
                /\ result = Returned(<<"According to rule id", Format(ArgRuleId(i)), ",",
                                       "firmware requirements met, no updates required">>)
                /\ OnlyHistoryCalls

\* C8 witness: the second rule of the list matches and has a null target
C8_Witness ==
    /\ Evaluated
    /\ IsMatchedRule(2)
    /\ ArgRuleTarget(2) = PyNone
    /\ result.kind = "return"

\* the target the call holds for a channel: None when the entry is absent
TargetOf(firmwareType) ==
    IF targetVersions.t = "dict" /\ firmwareType \in DOMAIN targetVersions.d
    THEN targetVersions.d[firmwareType]
    ELSE PyNone

\* the cache retrieval for the channel gave a filename
RetrievedFile(firmwareType) ==
    \E i \in IndicesFor("retrieved", firmwareType) : calls[i].ret.t # "raise"

\* the cache retrieval for the channel failed
RetrieveFailed(firmwareType) ==
    \E i \in IndicesFor("retrieved", firmwareType) : calls[i].ret.t = "raise"

\* the status query for firmwareType answered that no update is in progress
AnsweredIdle(firmwareType) ==
    \E i \in IndicesFor("status", firmwareType) :
        /\ calls[i].ret.t = "dict"
        /\ ~ReportedInProgress(firmwareType)

\* the two tests on the channel's target have been made
Resolved(firmwareType) ==
    IF firmwareType = Notecard
    THEN AnsweredIdle(Host) /\ pc # "resolveNotecard"
    ELSE /\ AnsweredIdle(Host)
         /\ pc \notin {"resolveNotecard", "retrieveNotecard", "requestNotecard", "resolveHost"}
         /\ \/ TargetOf(Notecard) \in {PyNone, notecardFirmwareVersion}
            \/ \E i \in IndicesFor("request", Notecard) : calls[i].ret = PyNone

\* C4: in a live call, a channel gets an update request only after its cache
\* retrieval gave a filename for a target that differs from the current
\* version; the request is made once, for the device of the call, for that
\* channel, with the filename the cache holds for the channel and the target
\* version; a channel without such a retrieval gets no request.
C4_OneRequestPerResolvedChannel ==
    ~DryRun =>
        \A firmwareType \in FirmwareTypes :
            /\ pc = RequestPc(firmwareType) =>
                  /\ TargetOf(firmwareType) \in DOMAIN cache[firmwareType]
                  /\ file = cache[firmwareType][TargetOf(firmwareType)]
            /\ \A i \in IndicesFor("request", firmwareType) :
                  /\ calls[i].device = args.deviceUID
                  /\ TargetOf(firmwareType) \notin {PyNone, CurrentVersion(firmwareType)}
                  /\ i > 1
                  /\ calls[i - 1] = Call("retrieved", args.deviceUID, firmwareType,
                                         TargetOf(firmwareType), calls[i].arg)
            /\ Cardinality(IndicesFor("request", firmwareType)) =
                  IF RetrievedFile(firmwareType) /\ pc # RequestPc(firmwareType)
                  THEN 1 ELSE 0

\* C4 witness: a live call that has requested the update of both channels,
\* each with the file of its own channel
C4_Witness ==
    /\ pc = "done"
    /\ ~DryRun
    /\ result.kind = "return"
    /\ \E i \in IndicesFor("request", Notecard) : calls[i].arg = PyStr("notecard-8.1.4.bin")
    /\ \E i \in IndicesFor("request", Host) : calls[i].arg = PyStr("host-8.1.4.bin")

\* C5: once the tests on a channel's target have been made, a channel whose
\* target entry is absent or null is reported with the no-request message and
\* a channel whose target equals its current version with the
\* already-at-target message; for such a channel the cache was never asked
\* and no update was requested, and the catalog is fetched for retrievals only.
C5_NoTargetOrAtTarget ==
    targetVersions.t = "dict" =>
        \A firmwareType \in FirmwareTypes :
            LET fw == TargetOf(firmwareType)
                expected ==
                    IF fw = PyNone
                    THEN <<"No firmware update request for", firmwareType>>
                    ELSE <<"Skipping update request for", firmwareType,
                           ". Already at target version of", fw.s, ".">>
            IN  (Resolved(firmwareType) /\ fw \in {PyNone, CurrentVersion(firmwareType)}) =>
                    /\ IndicesFor("retrieve", firmwareType) = {}
                    /\ IndicesFor("retrieved", firmwareType) = {}
                    /\ IndicesFor("request", firmwareType) = {}
                    /\ Cardinality(Indices("catalog")) <= Cardinality(Indices("retrieve"))
                    /\ firmwareType = Notecard =>
                          /\ ncMessage = expected
                          /\ result.kind = "return" => Contains(result.value, expected)
                    /\ firmwareType = Host =>
                          /\ pc = "done"
                          /\ result.kind = "return"
                          /\ Contains(result.value, expected)

\* C5 witness: a returned call whose target has a null Notecard entry and a
\* host entry equal to the host's current version
C5_Witness ==
    /\ pc = "done"
    /\ result.kind = "return"
    /\ targetVersions = PyDict(D2(Notecard, PyNone, Host, V1))
    /\ hostFirmwareVersion = V1
    /\ Resolved(Host)

\* C5 witness of the absent entry: the target has no Notecard entry and the
\* host was asked to update
C5_WitnessAbsent ==
    /\ pc = "done"
    /\ result.kind = "return"
    /\ targetVersions = PyDict(D1(Host, V2))
    /\ IndicesFor("request", Host) # {}
    /\ IndicesFor("retrieve", Notecard) = {}

\* the returned string has the token somewhere
Says(token) ==
    /\ result.kind = "return"
    /\ \E k \in 1..Len(result.value) : result.value[k] = token

\* C1: a call made as a dry run has requested no update, it ends with a
\* report unless a collaborator failed, and each channel whose retrieval gave
\* a file is reported with the "Would request" phrasing.
C1_DryRunReportsWithoutRequesting ==
    (pc = "done" /\ DryRun) =>
        /\ Indices("request") = {}
        /\ result.kind = "return" \/ CollaboratorFailed
        /\ \A firmwareType \in FirmwareTypes :
              RetrievedFile(firmwareType) => Says("Would request")

\* C6: when the cache retrieval for a channel's target version has failed and
\* no collaborator failed, the call has returned a string that reports the
\* channel with the "Cannot update" phrasing.
C6_CacheFailureIsReported ==
    pc = "done" =>
        \A firmwareType \in FirmwareTypes :
            (RetrieveFailed(firmwareType) /\ ~CollaboratorFailed) => Says("Cannot update")

----------------------------------------------------------------------------
(* Properties of rules_engine.getFirmwareUpdateTargets *)

\* the rules of the evaluation, as a sequence
EvalRules == IF e_rules.t = "list" THEN e_rules.items ELSE <<e_rules.d>>

EvalConditions(i) ==
    IF "conditions" \in DOMAIN EvalRules[i] THEN EvalRules[i]["conditions"] ELSE PyNone

\* the pair the evaluation returns when it selects rule i
EvalSelected(i) ==
    [kind |-> "return",
     id |-> IF "id" \in DOMAIN EvalRules[i] THEN EvalRules[i]["id"]
            ELSE PyStr("rule-" \o ToString(i)),
     target |-> IF "target_versions" \in DOMAIN EvalRules[i]
                THEN EvalRules[i]["target_versions"] ELSE PyNone]

\* one (field path, condition) entry matches the value resolved from the device
EntryMatches(entry) ==
    LET value == resolve_field_value(e_device, entry[1])
    IN  IF entry[2].t = "fn"
        THEN Apply(entry[2], value).t # "raise" /\ Truthy(Apply(entry[2], value))
        ELSE value = entry[2]

\* every entry of the conditions of rule i matches
AllEntriesMatch(i) ==
    \/ EvalConditions(i) = PyNone
    \/ \A k \in 1..Len(EvalConditions(i).items) : EntryMatches(EvalConditions(i).items[k])

\* C9: when the evaluation returns, it returns the id and the target of the
\* lowest-index rule whose conditions all match, also when a later rule
\* matches as well.
C9_FirstMatchWins ==
    e_out.kind = "return" =>
        \A i \in 1..Len(EvalRules) :
            (AllEntriesMatch(i) /\ \A k \in 1..(i - 1) : ~AllEntriesMatch(k)) =>
                e_out = EvalSelected(i)

\* C9 witness: both rules of a list match, they differ in id and target, and
\* the first was returned
C9_Witness ==
    /\ e_out.kind = "return"
    /\ Len(EvalRules) = 2
    /\ AllEntriesMatch(1)
    /\ AllEntriesMatch(2)
    /\ EvalSelected(1).id # EvalSelected(2).id
    /\ EvalSelected(1).target # EvalSelected(2).target
    /\ EvalConditions(2) # PyNone
    /\ Len(EvalConditions(2).items) = 2
    /\ e_out = EvalSelected(1)

\* C10: the first rule of the set is the one returned exactly when every
\* entry of its conditions matches; so is any rule that no matching rule
\* precedes, when the evaluation returns; a rule whose conditions are absent,
\* None or empty and that no matching rule precedes is returned for every device.
C10_MatchesIffEveryEntryMatches ==
    e_out # NotRun =>
        /\ Len(EvalRules) > 0 => (e_out = EvalSelected(1) <=> AllEntriesMatch(1))
        /\ \A i \in 1..Len(EvalRules) :
              (e_out.kind = "return" /\ \A k \in 1..(i - 1) : ~AllEntriesMatch(k)) =>
                  /\ e_out = EvalSelected(i) <=> AllEntriesMatch(i)
                  /\ ( \/ "conditions" \notin DOMAIN EvalRules[i]
                       \/ EvalRules[i]["conditions"] = PyNone
                       \/ EvalRules[i]["conditions"] = PyItems(<<>>) ) =>
                         e_out = EvalSelected(i)

\* C10 witness: the first entry of the only rule's conditions matches, a later
\* one does not, and the rule was not returned
C10_Witness ==
    /\ e_out = NoMatch
    /\ Len(EvalRules) = 1
    /\ EvalConditions(1) # PyNone
    /\ Len(EvalConditions(1).items) = 3
    /\ EntryMatches(EvalConditions(1).items[1])
    /\ ~EntryMatches(EvalConditions(1).items[2])

\* C10 witness of the rules without conditions: a rule with absent conditions
\* was returned although an earlier rule with conditions did not match
C10_WitnessUnconditional ==
    /\ e_out.kind = "return"
    /\ Len(EvalRules) = 2
    /\ ~AllEntriesMatch(1)
    /\ "conditions" \notin DOMAIN EvalRules[2]
    /\ e_out = EvalSelected(2)

\* the field a condition is keyed on is absent from the device attributes: the
\* key is missing, or the dotted path does not resolve
FieldAbsent(path) ==
    IF HasDot(path) THEN resolve_field_value(e_device, path) = PyNone
    ELSE path \notin DOMAIN e_device

\* C11: when the evaluation returns and some rule of the set matches, the
\* returned rule id is not None, and the no-match pair is returned only when
\* no rule matches, also for rules that declare an id of None.
C11_NoMatchPairOnlyWithoutMatch ==
    e_out.kind = "return" =>
        /\ (\E i \in 1..Len(EvalRules) : AllEntriesMatch(i)) => e_out.id # PyNone
        /\ e_out = NoMatch => \A i \in 1..Len(EvalRules) : ~AllEntriesMatch(i)

\* C12: a rule that has a literal condition on a field that is absent from
\* the device attributes is not the rule returned, also when the literal is None.
C12_LiteralNeverMatchesAbsent ==
    e_out.kind = "return" =>
        \A i \in 1..Len(EvalRules) :
            (/\ EvalConditions(i) # PyNone
             /\ \E k \in 1..Len(EvalConditions(i).items) :
                   /\ EvalConditions(i).items[k][2].t # "fn"
                   /\ FieldAbsent(EvalConditions(i).items[k][1])) =>
                e_out # EvalSelected(i)

\* the segments of a field path of the model, and the value found by walking
\* the attribute map along them
SegmentCount == (Len(e_path) + 1) \div 2

Segment(j) == <<e_path[2 * j - 1]>>

Walked(j) ==
    LET v1 == IF Segment(1) \in DOMAIN e_device THEN e_device[Segment(1)] ELSE PyNone
        v2 == IF v1.t = "dict" /\ Segment(2) \in DOMAIN v1.d THEN v1.d[Segment(2)] ELSE PyNone
        v3 == IF v2.t = "dict" /\ Segment(3) \in DOMAIN v2.d THEN v2.d[Segment(3)] ELSE PyNone
    IN  CASE j = 1 -> v1
          [] j = 2 -> v2
          [] j = 3 -> v3

\* C13: resolving a field path yields the value found by walking the
\* attribute map segment by segment when every segment exists, yields None
\* when a key is missing or a value on the way is not a mapping, and never raises.
C13_DottedPathResolves ==
    e_value # NotRun =>
        /\ e_value.t # "raise"
        /\ e_value = Walked(SegmentCount)

\* C13 witness: the path goes through a value that is a string, not a
\* mapping, and None was returned
C13_Witness ==
    /\ e_value = PyNone
    /\ e_path = VerMajor
    /\ <<"firmware_notecard">> \in DOMAIN e_device
    /\ e_device[<<"firmware_notecard">>] = PyStr("7.5.1")

\* C13 witness of a path of three segments that all exist
C13_WitnessNested ==
    /\ e_value = PyInt(7)
    /\ SegmentCount = 3

\* C14: the rule and the target the orchestrator's evaluator gives for a
\* device are those rules_engine.getFirmwareUpdateTargets gives for the same
\* attributes and the same rules.
C14_OrchestratorUsesRuleSetEvaluator ==
    (e_out # NotRun /\ e_local # NotRun) => e_local = e_out

\* the current version the caller supplied for a channel
Supplied(firmwareType) ==
    IF firmwareType = Notecard THEN args.notecardFirmwareVersion
    ELSE args.hostFirmwareVersion

\* the call is past the gathering of the current versions
Gathered ==
    /\ pc \notin {"idle", "gatherNotecard", "gatherHost"}
    /\ result # Failed(UnexpectedKeyword)
    /\ \A i \in Indices("history") : calls[i].ret.t # "raise"

\* a history answer without a current version: empty, or with an empty record
NoVersionIn(answer) ==
    /\ answer.t = "dict"
    /\ \/ "current" \notin DOMAIN answer.d
       \/ "version" \notin DOMAIN answer.d["current"].d

\* C20: the update history of a channel is fetched, for the device of the
\* call, once when the caller supplied no current version for the channel and
\* never otherwise; the fetches precede every other collaborator call and the
\* evaluation of the rules; an answer without a current version leaves the
\* channel's current version None and does not fail the call.
C20_HistoryFetchedWhenVersionMissing ==
    \A firmwareType \in FirmwareTypes :
        /\ Cardinality(IndicesFor("history", firmwareType)) <= 1
        /\ Supplied(firmwareType) # PyNone => IndicesFor("history", firmwareType) = {}
        /\ (Gathered /\ Supplied(firmwareType) = PyNone) =>
              Cardinality(IndicesFor("history", firmwareType)) = 1
        /\ pc \in {"gatherNotecard", "gatherHost"} =>
              ruleID = PyNone /\ targetVersions = PyNone
        /\ \A i \in IndicesFor("history", firmwareType) :
              /\ calls[i].device = args.deviceUID
              /\ \A k \in 1..(i - 1) : calls[k].op = "history"
              /\ NoVersionIn(calls[i].ret) =>
                    /\ CurrentVersion(firmwareType) = PyNone
                    /\ i = Len(calls) => result.kind # "raise"

\* C20 witness: a returned call for which the caller supplied the host
\* version only; the Notecard history was fetched and was empty
C20_Witness ==
    /\ pc = "done"
    /\ result.kind = "return"
    /\ args.notecardFirmwareVersion = PyNone
    /\ args.hostFirmwareVersion = V1
    /\ Cardinality(Indices("history")) = 1
    /\ \E i \in IndicesFor("history", Notecard) : calls[i].ret = PyDict(<<>>)
    /\ Indices("status") # {}

----------------------------------------------------------------------------
(* Properties of FirmwareCache *)

\* the operation the log in calls is of
LastOp == IF Len(calls) > 0 THEN calls[1].op ELSE "none"

\* a step that is a call of retrieve
RetrieveStep ==
    /\ Len(calls') > 0
    /\ calls'[1].op = "retrieve"
    /\ <<calls, cache, cache_expiry, result>>' # <<calls, cache, cache_expiry, result>>

\* C16: a call of retrieve fetches the catalog exactly when the clock has
\* reached cache_expiry, which is 1800 s after the last refresh: before that
\* time it does not call the catalog again.
C16_RefreshOnlyWhenStale ==
    [][RetrieveStep =>
          ((\E i \in 1..Len(calls') : calls'[i].op = "catalog") <=> now >= cache_expiry)]_vars

\* the snapshot stores a non-empty string for (firmwareType, version)
StoresFile(firmwareType, version) ==
    /\ firmwareType \in DOMAIN cache
    /\ version \in DOMAIN cache[firmwareType]
    /\ cache[firmwareType][version].t = "str"
    /\ cache[firmwareType][version].s # ""

\* C17: what retrieve returns is a non-empty string, the filename the
\* snapshot stores for the channel and the version asked for; when the channel
\* is unknown, the version is unknown for it, or the stored filename is empty
\* or not a string, retrieve has raised.
C17_RetrieveReturnsStoredFile ==
    LastOp = "retrieve" =>
        LET firmwareType == calls[1].fw
            version == calls[1].arg
        IN  /\ result.kind \in {"return", "raise"}
            /\ result.kind = "return" =>
                  /\ StoresFile(firmwareType, version)
                  /\ result.value = cache[firmwareType][version]
            /\ ~StoresFile(firmwareType, version) => result.kind = "raise"

\* C17 witness: the snapshot stores a filename that is not a string for the
\* version asked for, and retrieve raised
C17_Witness ==
    /\ LastOp = "retrieve"
    /\ calls[1].fw = Host
    /\ calls[1].arg = V1
    /\ Host \in DOMAIN cache
    /\ V1 \in DOMAIN cache[Host]
    /\ cache[Host][V1] = PyInt(7)
    /\ result = Failed("invalid file name")

\* C17 witness of a returned filename
C17_WitnessReturned ==
    /\ LastOp = "retrieve"
    /\ calls[1].fw = Notecard
    /\ result = Returned(PyStr("notecard-8.1.4.bin"))

\* a version other than the one given
OtherVersion(version) == CHOOSE v \in RetrieveVersions : v # version

\* C18: when retrieve fails for a channel that has no version at all, the
\* error is not the one raised for a channel that has another version but
\* not the one asked for.
C18_ZeroVersionsErrorDiffers ==
    (/\ LastOp = "retrieve"
     /\ result.kind = "raise"
     /\ calls[1].fw \in DOMAIN cache
     /\ DOMAIN cache[calls[1].fw] = {}
     /\ calls[Len(calls)].op = "retrieved") =>
        LET firmwareType == calls[1].fw
            version == calls[1].arg
            withOther == [cache EXCEPT ![firmwareType] =
                             [v \in {OtherVersion(version)} |-> PyStr("other.bin")]]
        IN  result # Failed(lookup(withOther, firmwareType, version).exc)

\* an entry of the catalog that carries a type, a version and a filename
Complete(entry) ==
    /\ Get(entry, "type", PyNone) # PyNone
    /\ Get(entry, "version", PyNone) # PyNone
    /\ Get(entry, "filename", PyNone) # PyNone

\* every complete entry names one of the two firmware types
AllKnown(response) ==
    \A k \in 1..Len(response) :
        Complete(response[k]) =>
            response[k]["type"].t = "str" /\ response[k]["type"].s \in FirmwareTypes

\* the complete entries of the response for a type, a version
EntriesFor(response, t, v) ==
    {k \in 1..Len(response) :
        /\ Complete(response[k])
        /\ response[k]["type"] = PyStr(t)
        /\ response[k]["version"] = v}

\* the map the claim describes: the filename of each (type, version) pair
\* of the complete entries, the last entry of a pair counting
Snapshot(response) ==
    [t \in FirmwareTypes |->
        [v \in {response[k]["version"] :
                   k \in {j \in 1..Len(response) :
                             Complete(response[j]) /\ response[j]["type"] = PyStr(t)}} |->
            response[CHOOSE k \in EntriesFor(response, t, v) :
                        \A j \in EntriesFor(response, t, v) : j <= k]["filename"]]]

\* C19: after an update that succeeded, whether called directly or by
\* retrieve, the cache maps exactly the (type, version) pairs of the complete
\* entries of the catalog response to their filenames, whatever it held
\* before, and cache_expiry is the time of that refresh plus 1800 seconds.
C19_UpdateRebuildsSnapshot ==
    \A i \in Indices("catalog") :
        (calls[i].ret.t = "list" /\ AllKnown(calls[i].ret.items)) =>
            /\ cache = Snapshot(calls[i].ret.items)
            /\ cache_expiry = calls[i].arg.n + 1800

\* C19 witness: a refresh at time 1800, hence not the first of the cache
\* object's life that could have been made, from a response with an entry
\* that lacks its filename
C19_Witness ==
    /\ LastOp = "update"
    /\ result.kind = "return"
    /\ cache_expiry = 2 * expiration_duration_seconds
    /\ DOMAIN cache[Notecard] = {V2}
    /\ cache[Notecard][V2] = PyStr("notecard-8.1.4.bin")
    /\ cache[Host][V2] = PyStr("host-8.1.4.bin")

\* C19 witness of a response with two entries for one (type, version) pair
C19_WitnessDuplicate ==
    /\ LastOp = "retrieve"
    /\ \E i \in Indices("catalog") :
          /\ calls[i].ret.t = "list"
          /\ Len(calls[i].ret.items) = 3
          /\ Cardinality(EntriesFor(calls[i].ret.items, Notecard, V2)) = 2
    /\ cache[Notecard][V2] = PyStr("notecard-8.1.4.bin")

----------------------------------------------------------------------------
(* Properties of lambda_handler *)

\* the request carries the configured token in x-api-key or Authorization
Authenticated == authenticate_request(event, expected_token).success

\* the request body is a mapping, or the JSON text of one
BodyIsMapping ==
    \/ event.body.t = "dict"
    \/ event.body.t = "json" /\ event.body.v.t = "dict"

RequestPayload == IF event.body.t = "dict" THEN event.body.d ELSE event.body.v.d

\* the body names the device by a non-empty string
ValidDevice ==
    /\ BodyIsMapping
    /\ <<"device">> \in DOMAIN RequestPayload
    /\ RequestPayload[<<"device">>].t = "str"
    /\ RequestPayload[<<"device">>].s # ""

\* headers and query parameters are mappings where the event has them
WellFormedEvent ==
    /\ event.headers.t \in {"absent", "dict"}
    /\ event.queryStringParameters.t \in {"absent", "dict"}

\* C15: an authenticated request with a valid device UID, no collaborator
\* failing, ends with the orchestrator called for that device, with the
\* rule set, and with status 200 and the orchestrator's message in the
\* response body.
C15_ValidRequestAnswered200 ==
    (/\ h_pc = "done"
     /\ Authenticated
     /\ ValidDevice
     /\ WellFormedEvent
     /\ session # NotRun => session.outcome # Failed("CollaboratorFailure")) =>
        /\ session # NotRun
        /\ session.deviceUID = RequestPayload[<<"device">>]
        /\ session.rules = DevicesInUpdateFleet
        /\ session.outcome.kind = "return"
        /\ h_response.kind = "return"
        /\ h_response.statusCode = 200
        /\ h_response.body.v.d["response"] = Text(session.outcome.value)

----------------------------------------------------------------------------
(* Properties of manageFirmware: dry run against live run *)

\* the returned string reports the channel with the given phrasing
Phrased(phrasing, firmwareType) ==
    /\ result.kind = "return"
    /\ Contains(result.value, <<phrasing, firmwareType, "firmware update from">>)

\* the channel is one a live run asks an update for: its target is set,
\* differs from the current version and the cache holds a file for it
Eligible(firmwareType) ==
    /\ Resolved(firmwareType)
    /\ TargetOf(firmwareType) \notin {PyNone, CurrentVersion(firmwareType)}
    /\ firmwareType \in DOMAIN cache
    /\ TargetOf(firmwareType) \in DOMAIN cache[firmwareType]

\* C21: with no collaborator failing, a live run has issued one request for
\* each channel it reports as "Requested" and for no other, and a dry run
\* on the same inputs ends with a report that names with "Would request"
\* exactly the channels a live run asks an update for, having requested
\* nothing.
C21_DryRunDecidesAsLive ==
    (pc = "done" /\ ~CollaboratorFailed) =>
        IF DryRun
        THEN /\ result.kind = "return"
             /\ Indices("request") = {}
             /\ \A firmwareType \in FirmwareTypes :
                   Phrased("Would request", firmwareType) <=> Eligible(firmwareType)
        ELSE \A firmwareType \in FirmwareTypes :
                /\ Phrased("Requested", firmwareType) =>
                      Cardinality(IndicesFor("request", firmwareType)) = 1
                /\ (result.kind = "return" /\ ~Phrased("Requested", firmwareType)) =>
                      IndicesFor("request", firmwareType) = {}

\* the marker a dry-run result starts with
DryRunMarker == <<"Dry-Run:">>

\* C22: a returned result starts with the "Dry-Run:" marker exactly when the
\* call is a dry run, a dry run without collaborator failure returns a
\* result, and the result of a run that resolved both channels is the
\* marker (dry run only), the rule clause, the Notecard message and the host
\* message, in this order.
C22_ResultIsOrderedConcatenation ==
    pc = "done" =>
        /\ (DryRun /\ ~CollaboratorFailed) => result.kind = "return"
        /\ result.kind = "return" =>
              /\ DryRun <=> (Len(result.value) > 0 /\ result.value[1] = "Dry-Run:")
              /\ (Resolved(Notecard) /\ Resolved(Host)) =>
                    \E hostMessage \in {NoRequestMessage(Host),
                                         SkipMessage(Host, TargetOf(Host)),
                                         RequestedMessage(Host, hostFirmwareVersion, TargetOf(Host))} :
                        result.value = (IF DryRun THEN DryRunMarker ELSE <<>>)
                                       \o RuleMessage(ruleID) \o ncMessage \o hostMessage

----------------------------------------------------------------------------
(* Properties of the shared FirmwareCache *)

\* the invocation is between the staleness test of retrieve and its end
InRetrieve(t) ==
    /\ threads[t].op = "retrieve"
    /\ threads[t].pc \in {"fetch", "publish", "stamp", "checkType", "checkVersion", "read"}

\* C23: of two invocations that call retrieve on the shared cache, one only
\* is between its staleness test and its read at any time, and when both
\* found the cache stale with the same expiry time, one only has fetched
\* the catalog.
C23_StaleRetrievesAreSerialized ==
    \A t, u \in Threads :
        t # u =>
            /\ ~(InRetrieve(t) /\ InRetrieve(u))
            /\ (/\ threads[t].op = "retrieve"
                /\ threads[u].op = "retrieve"
                /\ threads[t].stale
                /\ threads[u].stale
                /\ threads[t].expiry_seen = threads[u].expiry_seen) =>
                   ~(threads[t].fetched /\ threads[u].fetched)

\* the maps update can build from one catalog response
BuiltSnapshots ==
    {BuildCache(response, 1, EmptyCache) : response \in SharedCatalogs} \ {Raised("KeyError")}

\* C24: the reads of self.cache one retrieve makes for its lookup all see
\* the same map, and this map is the complete one built from one catalog
\* response.
C24_LookupSeesOneSnapshot ==
    \A t \in Threads :
        \A i \in 1..Len(threads[t].seen) :
            /\ threads[t].seen[i] \in BuiltSnapshots
            /\ threads[t].seen[i] = threads[t].seen[1]

----------------------------------------------------------------------------
(* Properties of rules_engine.getFirmwareUpdateTargets: None conditions, ids *)

\* every entry of the conditions of rule i matches, entries whose condition
\* is None not counting
MatchesIgnoringNone(i) ==
    \/ EvalConditions(i) = PyNone
    \/ \A k \in 1..Len(EvalConditions(i).items) :
          \/ EvalConditions(i).items[k][2] = PyNone
          \/ EntryMatches(EvalConditions(i).items[k])

\* C25: a condition whose value is None is ignored: the rule returned is the
\* first one whose other conditions all match, whatever value the device has
\* for the fields with a None condition.
C25_NoneConditionIgnored ==
    e_out.kind = "return" =>
        \A i \in 1..Len(EvalRules) :
            (MatchesIgnoringNone(i) /\ \A k \in 1..(i - 1) : ~MatchesIgnoringNone(k)) =>
                e_out = EvalSelected(i)

\* the id of a rule without id at the 1-based place i of the list
PositionalId(i) ==
    CASE i = 1 -> PyStr("rule-1")
      [] i = 2 -> PyStr("rule-2")
      [] i = 3 -> PyStr("rule-3")
      [] i = 4 -> PyStr("rule-4")

\* rule i is the one the evaluation returned: the first whose entries all match
IsReturned(i) ==
    /\ e_out.kind = "return"
    /\ i \in 1..Len(EvalRules)
    /\ AllEntriesMatch(i)
    /\ \A k \in 1..(i - 1) : ~AllEntriesMatch(k)

\* C26: a returned rule without an id key gets the id "rule-n", n being its
\* 1-based place in the list, whatever the rules before it are; a bare rule
\* gets "rule-1".
C26_DefaultIdIsPositional ==
    \A i \in 1..Len(EvalRules) :
        (IsReturned(i) /\ "id" \notin DOMAIN EvalRules[i]) =>
            /\ e_out.id = PositionalId(i)
            /\ e_rules.t = "dict" => e_out.id = PyStr("rule-1")

\* C26 witness: the second rule of a list has no id and is returned as
\* "rule-2" after a first rule that declares an id and does not match
C26_Witness ==
    /\ e_rules.t = "list"
    /\ Len(EvalRules) = 2
    /\ "id" \in DOMAIN EvalRules[1]
    /\ "id" \notin DOMAIN EvalRules[2]
    /\ IsReturned(2)
    /\ e_out.id = PyStr("rule-2")

\* C26 witness of a bare rule
C26_WitnessBare ==
    /\ e_rules.t = "dict"
    /\ "id" \notin DOMAIN EvalRules[1]
    /\ IsReturned(1)
    /\ e_out.id = PyStr("rule-1")

----------------------------------------------------------------------------
(* Properties of the shipped rule set *)

\* the version field the device reports, None when it reports none
Reported(field) ==
    IF /\ <<"firmware_notecard">> \in DOMAIN e_device
       /\ e_device[<<"firmware_notecard">>].t = "dict"
       /\ <<field>> \in DOMAIN e_device[<<"firmware_notecard">>].d
    THEN e_device[<<"firmware_notecard">>].d[<<field>>]
    ELSE PyNone

\* the version fields the device reports are numbers
NumericVersion ==
    \A field \in {"ver_major", "ver_minor", "ver_patch"} :
        Reported(field).t \in {"none", "int"}

\* the Notecard firmware of the device is 7.5.1.x
At751 ==
    /\ Reported("ver_major") = PyInt(7)
    /\ Reported("ver_minor") = PyInt(5)
    /\ Reported("ver_patch") = PyInt(1)

\* the device is in the update fleet
InUpdateFleet ==
    /\ <<"fleets">> \in DOMAIN e_device
    /\ e_device[<<"fleets">>].t = "list"
    /\ \E k \in 1..Len(e_device[<<"fleets">>].items) :
          e_device[<<"fleets">>].items[k] = PyStr("fleet:50b4f0ee")

\* C28: with the shipped rule set, a device at 7.5.1 gets the target
\* 7.5.2.17004, in the update fleet or not; a device not at 7.5.1 whose
\* major version is below 8 and that is in the update fleet gets 8.1.3.17044;
\* every other device, one at major 8 or higher, one outside the update
\* fleet, one that reports no version fields, matches no rule.
C28_ShippedRules ==
    (e_out # NotRun /\ e_rules = PyList(DevicesInUpdateFleet) /\ NumericVersion) =>
        IF At751
        THEN /\ e_out.kind = "return"
             /\ e_out.target = PyDict(D1("notecard", PyStr("7.5.2.17004")))
        ELSE IF Reported("ver_major") # PyNone /\ Reported("ver_major").n < 8 /\ InUpdateFleet
        THEN /\ e_out.kind = "return"
             /\ e_out.target = PyDict(D1("notecard", PyStr("8.1.3.17044")))
        ELSE e_out = [kind |-> "return", id |-> PyNone, target |-> PyNone]

\* C28 witness: a device at 7.5.1 that is in the update fleet got the
\* target of the first rule
C28_Witness ==
    /\ e_rules = PyList(DevicesInUpdateFleet)
    /\ At751
    /\ InUpdateFleet
    /\ e_out.kind = "return"
    /\ e_out.target = PyDict(D1("notecard", PyStr("7.5.2.17004")))

\* C28 witness of the second rule
C28_WitnessSecond ==
    /\ e_rules = PyList(DevicesInUpdateFleet)
    /\ Reported("ver_major") = PyInt(7)
    /\ ~At751
    /\ InUpdateFleet
    /\ e_out.kind = "return"
    /\ e_out.target = PyDict(D1("notecard", PyStr("8.1.3.17044")))

\* C28 witness of a device at major 8 in the update fleet
C28_WitnessNoMatch ==
    /\ e_rules = PyList(DevicesInUpdateFleet)
    /\ Reported("ver_major") = PyInt(8)
    /\ InUpdateFleet
    /\ e_out = [kind |-> "return", id |-> PyNone, target |-> PyNone]

----------------------------------------------------------------------------
(* Properties of lambda_handler: who reaches the orchestrator *)

\* the handler answered with the status
Answered(statusCode) ==
    /\ h_response.kind = "return"
    /\ h_response.statusCode = statusCode

\* C29: the orchestrator is called only for a request that authenticated and
\* whose body names the device by a non-empty string; a request that failed
\* authentication is answered 401 and a request whose body is a mapping
\* without such a device is answered 400, both without a call of the
\* orchestrator.
C29_OrchestratorOnlyForValidRequests ==
    h_pc = "done" =>
        /\ session # NotRun => (Authenticated /\ ValidDevice)
        /\ ~Authenticated => (Answered(401) /\ session = NotRun)
        /\ (Authenticated /\ BodyIsMapping /\ ~ValidDevice) =>
              (Answered(400) /\ session = NotRun)

\* C29 witness: an authenticated request whose device UID is the empty
\* string was answered 400
C29_Witness ==
    /\ h_pc = "done"
    /\ Authenticated
    /\ BodyIsMapping
    /\ <<"device">> \in DOMAIN RequestPayload
    /\ RequestPayload[<<"device">>] = PyStr("")
    /\ Answered(400)
    /\ session = NotRun

\* C29 witness of a request with a wrong token and a valid device
C29_WitnessUnauthenticated ==
    /\ h_pc = "done"
    /\ ~Authenticated
    /\ ValidDevice
    /\ h_response = Respond(401, PyStr("Invalid authorization token"))
    /\ session = NotRun

\* the request has an x-api-key header and an Authorization header
BothHeaders ==
    /\ event.headers.t = "dict"
    /\ \E n \in DOMAIN event.headers.d : Lower(n) = "x-api-key"
    /\ \E n \in DOMAIN event.headers.d : Lower(n) = "authorization"

\* the request without its Authorization header
WithoutAuthorization ==
    [event EXCEPT !.headers =
        PyDict([n \in {m \in DOMAIN event.headers.d : Lower(m) # "authorization"} |->
                   event.headers.d[n]])]

\* C30: a request with both headers is authenticated as the same request
\* without its Authorization header is, whatever the two values are: the
\* x-api-key value alone decides.
C30_ApiKeyTakesPrecedence ==
    (h_pc # "start" /\ BothHeaders) =>
        LET r == authenticate_request(WithoutAuthorization, expected_token)
        IN  IF r.success THEN ~Answered(401)
            ELSE h_response = Respond(401, r.error)

----------------------------------------------------------------------------
(* Properties of authenticate_request *)

\* the authentication of the request succeeded
AuthenticationSucceeded == h_pc # "start" /\ ~Answered(401)

\* an expected token is configured: neither None nor the empty string
TokenConfigured == expected_token.t = "text" /\ expected_token.p # <<>>

\* the header value without an optional Bearer prefix and without the white
\* space around what is left
TokenIn(p) ==
    LET rest == IF p # <<>> /\ p[1] \in {"Bearer ", "bearer "} THEN Tail(p) ELSE p
        IsSpace(x) == x = " "
        first == CHOOSE i \in 1..(Len(rest) + 1) :
                    /\ \A j \in 1..(i - 1) : IsSpace(rest[j])
                    /\ i = Len(rest) + 1 \/ ~IsSpace(rest[i])
        last == CHOOSE i \in 0..Len(rest) :
                    /\ \A j \in (i + 1)..Len(rest) : IsSpace(rest[j])
                    /\ i = 0 \/ ~IsSpace(rest[i])
    IN  [i \in 1..(IF last < first THEN 0 ELSE last - first + 1) |-> rest[first + i - 1]]

\* the request presents the token in its x-api-key or Authorization header
Presents(token) ==
    /\ event.headers.t = "dict"
    /\ \E n \in DOMAIN event.headers.d :
          /\ Lower(n) \in {"x-api-key", "authorization"}
          /\ event.headers.d[n].t = "text"
          /\ TokenIn(event.headers.d[n].p) = token

\* C31: authentication succeeds only if an expected token is configured,
\* neither None nor empty, and the token of the request's header, without
\* an optional Bearer prefix and the white space around it, equals that
\* expected token; without a configured token no request authenticates.
C31_SuccessOnlyWithConfiguredEqualToken ==
    /\ AuthenticationSucceeded => (TokenConfigured /\ Presents(expected_token.p))
    /\ (h_pc # "start" /\ ~TokenConfigured) => (Answered(401) /\ session = NotRun)

\* C31 witness: a request whose token follows a bearer prefix authenticated
\* against the configured token
C31_Witness ==
    /\ AuthenticationSucceeded
    /\ TokenConfigured
    /\ event.headers = PyDict(D1("authorization", Text(<<"bearer ", Secret>>)))

\* C31 witness of a request refused for want of a configured token although
\* it carries a token
C31_WitnessNotConfigured ==
    /\ h_pc = "done"
    /\ expected_token = PyNone
    /\ event.headers = PyDict(D1("x-api-key", Text(<<Secret>>)))
    /\ h_response = Respond(401, PyStr("Authentication not configured"))

----------------------------------------------------------------------------
(* Properties of the rule evaluators: conditions that are callables *)

\* the value a field of the device resolves to, None for an absent field
ResolvedValue(field) ==
    IF FieldAbsent(field) THEN PyNone ELSE resolve_field_value(e_device, field)

\* the checks a log holds for a field of a rule
ChecksOf(log, i, field) ==
    {n \in 1..Len(log) : log[n].rule = i /\ log[n].field = field}

\* the check called the callable once, with the value as its only argument,
\* and took the condition as matched exactly when the result is truthy
InvokedOnceWith(check, condition, value) ==
    /\ Len(check.invoked) = 1
    /\ check.invoked[1].fn = condition.name
    /\ check.invoked[1].arguments = <<value>>
    /\ check.invoked[1].ret = Apply(condition, value)
    /\ check.matched = "match" <=>
          (~IsRaised(check.invoked[1].ret) /\ Truthy(check.invoked[1].ret))

\* entry k of the conditions of rule i is reached by a rule engine that does
\* not fail before: no earlier rule matched and the entries before it match
EntryReached(i, k) ==
    /\ \A r \in 1..(i - 1) : ~AllEntriesMatch(r)
    /\ \A j \in 1..(k - 1) : EntryMatches(EvalConditions(i).items[j])

\* what the orchestrator's evaluator compares the condition under a key with
LocalValue(key) == IF key \in DOMAIN e_device THEN e_device[key] ELSE PyNone

\* C32: each check of a condition that is a callable calls it exactly once,
\* with the value resolved from the device (None for an absent field) as the
\* only argument, and the condition matches exactly when the result is
\* truthy; so in the rule engine and in the orchestrator's own evaluator.
C32_CallableInvokedOncePerCheck ==
    /\ e_out # NotRun =>
          /\ \A n \in 1..Len(e_checks.engine) :
                LET check == e_checks.engine[n]
                    condition == ConditionOf(EvalConditions(check.rule), check.field)
                IN  IF condition.t = "fn"
                    THEN InvokedOnceWith(check, condition, ResolvedValue(check.field))
                    ELSE check.invoked = <<>>
          /\ \A i \in 1..Len(EvalRules) :
                (/\ i = 1 \/ e_out.kind = "return"
                 /\ EvalConditions(i) # PyNone
                 /\ EvalConditions(i).t = "items") =>
                    \A k \in 1..Len(EvalConditions(i).items) :
                        Cardinality(ChecksOf(e_checks.engine, i, EvalConditions(i).items[k][1]))
                            = IF EntryReached(i, k) THEN 1 ELSE 0
          /\ (Len(EvalRules) > 0 /\ EvalConditions(1) # PyNone) =>
                (e_out = EvalSelected(1) <=>
                    \A k \in 1..Len(EvalConditions(1).items) :
                        \E n \in ChecksOf(e_checks.engine, 1, EvalConditions(1).items[k][1]) :
                            e_checks.engine[n].matched = "match")
    /\ e_local # NotRun =>
          /\ \A n \in 1..Len(e_checks.local) :
                LET check == e_checks.local[n]
                    condition == ConditionOf(EvalConditions(check.rule), check.field)
                IN  IF condition.t = "fn"
                    THEN InvokedOnceWith(check, condition, LocalValue(check.field))
                    ELSE check.invoked = <<>>
          /\ (Len(EvalRules) > 0 /\ EvalConditions(1) # PyNone) =>
                Cardinality(ChecksOf(e_checks.local, 1, <<"notecard">>)) = 1

\* C32 witness: the rule engine called a callable with None for an absent
\* field and with a list for a present one, and the rule matched
C32_Witness ==
    /\ Len(EvalRules) > 0
    /\ e_out = EvalSelected(1)
    /\ Len(e_checks.engine) = 2
    /\ e_checks.engine[1].invoked # <<>>
    /\ e_checks.engine[1].invoked[1].ret = PyBool(TRUE)
    /\ e_checks.engine[2].invoked # <<>>
    /\ e_checks.engine[2].invoked[1].arguments[1].t = "list"

\* C32 witness of a callable called with None for an absent field
C32_WitnessAbsent ==
    /\ e_out = NoMatch
    /\ Len(e_checks.engine) = 1
    /\ FieldAbsent(e_checks.engine[1].field)
    /\ e_checks.engine[1].invoked # <<>>
    /\ e_checks.engine[1].invoked[1].arguments = <<PyNone>>

\* C32 witness of the orchestrator's evaluator: its callable under "fleet"
\* returned a truthy result for the fleet of the device
C32_WitnessLocal ==
    /\ e_local # NotRun
    /\ \E n \in 1..Len(e_checks.local) :
          /\ e_checks.local[n].field = <<"fleet">>
          /\ e_checks.local[n].invoked # <<>>
          /\ e_checks.local[n].invoked[1].arguments = <<Fleet1>>
          /\ e_checks.local[n].matched = "match"

----------------------------------------------------------------------------
(* Properties of manageFirmware: the order of the two channels *)

\* the matched target asks for an update of the channel
AsksUpdate(firmwareType) ==
    /\ targetVersions.t = "dict"
    /\ TargetOf(firmwareType) \notin {PyNone, CurrentVersion(firmwareType)}

\* the calls made for the channel after the status queries
ChannelCalls(firmwareType) ==
    IndicesFor("retrieve", firmwareType) \cup IndicesFor("retrieved", firmwareType)
        \cup IndicesFor("request", firmwareType)

C33_WitnessBlocked ==
    /\ pc = "done"
    /\ AsksUpdate(Notecard)
    /\ AsksUpdate(Host)
    /\ ReportedInProgress(Host)
    /\ ~ReportedInProgress(Notecard)
    /\ Indices("request") = {}

----------------------------------------------------------------------------
(* Properties of manageFirmware: failures of the collaborators *)

\* the calls of the four collaborators
CollaboratorOps == {"history", "status", "catalog", "request"}

\* call i of the invocation is a collaborator call that raised
FailedCall(i) == calls[i].op \in CollaboratorOps /\ calls[i].ret.t = "raise"

\* C34: a collaborator call that raises is the last call of the invocation,
\* which has ended by raising that failure: it is not caught, the call is
\* not made again, and no other collaborator is called after it.
C34_CollaboratorFailurePropagates ==
    \A i \in 1..Len(calls) :
        FailedCall(i) =>
            /\ pc = "done"
            /\ result = Failed("CollaboratorFailure")
            /\ i = Len(calls)
            /\ \A j \in 1..(i - 1) : ~FailedCall(j)

\* C34 witness: the catalog failed while the Notecard image was looked up,
\* after both status queries had answered
C34_Witness ==
    /\ pc = "done"
    /\ Len(calls) > 0
    /\ FailedCall(Len(calls))
    /\ calls[Len(calls)].op = "catalog"
    /\ AnsweredIdle(Host)
    /\ AsksUpdate(Host)

\* C34 witness of the failed Notecard request with a host update asked for
C34_WitnessRequest ==
    /\ pc = "done"
    /\ Len(calls) > 0
    /\ FailedCall(Len(calls))
    /\ calls[Len(calls)].op = "request"
    /\ calls[Len(calls)].fw = Notecard
    /\ AsksUpdate(Host)

----------------------------------------------------------------------------
(* Properties of manageFirmware: what precedes an update request *)

\* call i is the status query of the channel, answered with no update in progress
IdleAnswer(i, firmwareType) ==
    /\ calls[i].op = "status"
    /\ calls[i].fw = firmwareType
    /\ calls[i].ret.t = "dict"
    /\ \/ "dfu_in_progress" \notin DOMAIN calls[i].ret.d
       \/ calls[i].ret.d["dfu_in_progress"] = PyBool(FALSE)

----------------------------------------------------------------------------
(* Properties of manageFirmware: invocations that end with an exception *)

\* the invocation ended with an exception
EndedWithException == pc = "done" /\ result.kind = "raise"

\* the update requests of the invocation that the collaborator accepted
AcceptedRequests(firmwareType) ==
    {i \in IndicesFor("request", firmwareType) : calls[i].ret.t # "raise"}

\* C36 as stated: an invocation that ended with an exception has requested
\* no firmware update.
C36_FailedInvocationRequestedNothing ==
    EndedWithException =>
        \A firmwareType \in FirmwareTypes : AcceptedRequests(firmwareType) = {}

\* C36 amended: an invocation that ended with an exception has requested no
\* host update and at most the Notecard update; when it has requested the
\* Notecard update, the exception stems from the host update the target
\* asks for: its cache retrieval, the catalog refresh made for it, or its
\* request.
C36_FailedInvocationRequestedAtMostNotecard ==
    EndedWithException =>
        /\ AcceptedRequests(Host) = {}
        /\ Cardinality(AcceptedRequests(Notecard)) <= 1
        /\ AcceptedRequests(Notecard) # {} =>
              /\ AsksUpdate(Host)
              /\ IndicesFor("retrieve", Host) # {}
              /\ \/ RetrieveFailed(Host)
                 \/ FailedCall(Len(calls)) /\ calls[Len(calls)].op \in {"catalog", "request"}
                 \/ result = Failed("KeyError")

\* C36 witness: the Notecard update was requested and the invocation then
\* ended with the failure of the host update request
C36_Witness ==
    /\ EndedWithException
    /\ AcceptedRequests(Notecard) # {}
    /\ calls[Len(calls)].op = "request"
    /\ calls[Len(calls)].fw = Host
    /\ calls[Len(calls)].ret.t = "raise"

\* C36 witness of the host image missing from the cache after the Notecard
\* update was requested
C36_WitnessRetrieve ==
    /\ EndedWithException
    /\ AcceptedRequests(Notecard) # {}
    /\ RetrieveFailed(Host)

----------------------------------------------------------------------------
(* Properties of FirmwareCache: an update that fails *)

\* the catalog call of the log failed, or its response has a complete entry
\* of a type other than notecard and host
CatalogUnusable(log) ==
    \E i \in 1..Len(log) :
        /\ log[i].op = "catalog"
        /\ \/ log[i].ret.t = "raise"
           \/ log[i].ret.t = "list" /\ ~AllKnown(log[i].ret.items)

\* a step that is a call of update that failed
FailedUpdateStep ==
    /\ Len(calls') > 0
    /\ calls'[1].op = "update"
    /\ CatalogUnusable(calls')

\* C37: a call of update that fails, because the catalog raises or because
\* an entry of its response names another type, ends by raising and leaves
\* the snapshot and cache_expiry as they were before the call.
C37_FailedUpdateLeavesCache ==
    [][FailedUpdateStep =>
          /\ result'.kind = "raise"
          /\ cache' = cache
          /\ cache_expiry' = cache_expiry]_vars

\* C37 witness: an update failed on an entry of another type when the cache
\* held the snapshot of an earlier refresh, which it still holds
C37_Witness ==
    /\ LastOp = "update"
    /\ result = Failed("KeyError")
    /\ CatalogUnusable(calls)
    /\ cache_expiry = expiration_duration_seconds + 1
    /\ now = 2 * expiration_duration_seconds
    /\ Notecard \in DOMAIN cache
    /\ cache[Notecard] # <<>>

----------------------------------------------------------------------------
(* Properties of the shared FirmwareCache: snapshot and expiry *)

\* an invocation is inside update: it has read the clock or fetched the
\* catalog and has not yet made both assignments
UpdateMidway(t) == threads[t].pc \in {"fetch", "publish", "stamp"}

\* the refresh of invocation t built the snapshot and set the expiry the
\* cache object holds
StemsFrom(t) ==
    /\ threads[t].c # <<>>
    /\ cache = threads[t].c
    /\ cache_expiry = threads[t].ts + 1800

\* C38: whenever no invocation is inside update, the cache object is as
\* constructed or its snapshot and its cache_expiry stem from one and the
\* same refresh: the expiry is 1800 seconds after the start of the refresh
\* whose catalog response built the snapshot.
C38_SnapshotAndExpiryFromOneRefresh ==
    (\A t \in Threads : ~UpdateMidway(t)) =>
        \/ cache = <<>> /\ cache_expiry = 0
        \/ \E t \in Threads : StemsFrom(t)

----------------------------------------------------------------------------
(* Properties of manageFirmware: the forms of a target *)

\* the target of the matched rule is a single version string
StringTarget == targetVersions.t = "str"

\* C39: an invocation in which a rule matched, no collaborator failed and
\* the firmware cache gave what it was asked for has ended by returning one
\* result string, whatever form the target of the matched rule has: null, a
\* single version string, or a mapping from channel to version.
C39_ReturnsForEveryTargetForm ==
    (/\ pc = "done"
     /\ ruleID # PyNone
     /\ ~CollaboratorFailed
     /\ ~RetrieveFailed(Notecard)
     /\ ~RetrieveFailed(Host)
     /\ result # Failed("KeyError")) =>
        result.kind = "return"

----------------------------------------------------------------------------
(* Properties of lambda_handler: how a call ends *)

\* C40: a call of lambda_handler that has ended has returned a response with
\* status 200, 400, 401 or 500, whatever the event is: it never raises.
C40_HandlerAlwaysResponds ==
    h_pc = "done" =>
        /\ h_response.kind = "return"
        /\ h_response.statusCode \in {200, 400, 401, 500}

====
